---- MODULE Spec2Model ----
(***************************************************************************)
(* A state-machine model of the KTX2 viewer's container parser             *)
(* (parseKTX2), its upload layout helpers (padRows, padBlockRowsBC) and    *)
(* the loader that joins them (loadKTX2_ToTexture).                        *)
(*                                                                         *)
(* Numbers.  TLC's integers are 32-bit signed.  A uint32 read from the     *)
(* file is therefore carried as the pair <<hi16, lo16>> of its two 16-bit  *)
(* halves, and turned into one integer (Nat32) only where the code does    *)
(* arithmetic on it; JavaScript's ToInt32 and >> are computed on the pair. *)
(***************************************************************************)
EXTENDS Integers, Sequences, FiniteSets, TLC

VARIABLES
    \* ---- upload layout planner (padRows / padBlockRowsBC) ----
    heap,       \* the byte buffers that exist, by reference (index); heap[1] is src
    padIn,      \* the arguments of the calls: width, height, bytesPer, blockWidth, blockHeight
    rowsRet,    \* what padRows returned (Null before the call)
    bcRet,      \* what padBlockRowsBC returned (Null before the call)
    \* ---- parseKTX2 ----
    variant,    \* the file whose parseKTX2 is installed as window.parseKTX2
    built,      \* what the builder was asked to write (the input's origin)
    arrayBuffer,\* the file's bytes
    device,     \* the GPUDevice handed to parseKTX2: "bc", "nobc" or "undefined"
    pc,         \* where parseKTX2 is: start, an await, a level loop, returned, threw
    header, index, levels, dfd, kvd,   \* what parseKTX2 has decoded
    error,      \* the message of the error parseKTX2 threw ("none" before)
    lvl,        \* the level loop's index i
    calls,      \* the calls made to the external codecs, in order
    fzstdLoaded,\* module global of loadFzstd
    basis,      \* the BasisLZ session: file kind, target format, level counts
    \* ---- loadKTX2_ToTexture ----
    lpc,        \* where the load is: awaitParse, awaitWasm, wasmLevels, done, threw
    lerror,     \* the message of the error the load threw ("none" before)
    decodedMips,\* the mips the WASM transcoder produced (Null on the other path)
    levelIndex, \* the WASM level loop's index
    wasm,       \* the WASM session: levelsCount, and the log of its calls
    srcTex,     \* the texture the load created (Null before)
    uploads,    \* the device.queue.writeTexture calls of the load, in order
    \* ---- the lazy initialisers of the external codecs ----
    tasks,      \* per parser: where its current initialiser call is, and parses left
    globals,    \* the module-level lets: fzstdLoaded, basisModulePromise, ktxModule, ...
    initCount,  \* per codec: script elements appended / module factories invoked
    \* ---- the viewer: file loads, the mip slider, the single-mip box ----
    viewer,     \* srcTex, srcView, texBindGroup, mipCount, currentMip, slider, box, stat
    textures,   \* the GPU textures created so far: mip level count, destroyed or not
    fileLoads,  \* the loads started by the file input, in order of selection
    probe,      \* what was observed: single-mip views made, uses of destroyed textures
    \* ---- transcodeFullKTX2 ----
    fullRun     \* one call: the texture it is given, where it is, the calls it made

padVars == <<heap, padIn, rowsRet, bcRet>>
parseVars == <<variant, built, arrayBuffer, device, pc, header, index, levels, dfd, kvd,
               error, lvl, calls, fzstdLoaded, basis>>
loadVars == <<lpc, lerror, decodedMips, levelIndex, wasm, srcTex, uploads>>
initVars == <<tasks, globals, initCount>>
viewVars == <<viewer, textures, fileLoads, probe>>
fullVars == <<fullRun>>
vars == <<padVars, parseVars, loadVars, initVars, viewVars, fullVars>>

\* What the actions of a part leave alone: the state of the other parts.
padFrame == <<parseVars, loadVars, initVars, viewVars, fullVars>>
parseFrame == <<padVars, loadVars, initVars, viewVars, fullVars>>
loadFrame == <<padVars, parseVars, initVars, viewVars, fullVars>>
initFrame == <<padVars, parseVars, loadVars, viewVars, fullVars>>
viewFrame == <<padVars, parseVars, loadVars, initVars, fullVars>>
fullFrame == <<padVars, parseVars, loadVars, initVars, viewVars>>

Null == [null |-> TRUE]

Min(a, b) == IF a < b THEN a ELSE b
Max(a, b) == IF a > b THEN a ELSE b

(***************************************************************************)
(* Bounds of the model.                                                    *)
(***************************************************************************)
MaxWidth == 66
MaxHeight == 2

(***************************************************************************)
(* Upload layout planner, src/media/main.js.                               *)
(***************************************************************************)
\* The WebGPU row pitch: the literal 256 of Math.ceil(rowStride / 256) * 256.
RowAlign == 256

\* Math.ceil(a / b) for integers a >= 0, b >= 1.
MathCeilDiv(a, b) == (a + b - 1) \div b

\* A mutant of AlignedStride: rounds down instead of up.
AlignedStrideFloor(rowStride) == (rowStride \div RowAlign) * RowAlign

\* const alignedStride = Math.ceil(rowStride / 256) * 256;
AlignedStride(rowStride) == MathCeilDiv(rowStride, RowAlign) * RowAlign

\* new Uint8Array(n): n zero bytes.
NewUint8Array(n) == [k \in 1..n |-> 0]

\* A mutant of Subarray: always the leading bytes of src.
SubarrayFromStart(src, begin, end) == SubSeq(src, 1, Min(end - begin, Len(src)))

\* src.subarray(begin, end): both ends are clamped to the length of src.
Subarray(src, begin, end) ==
    LET b == Min(begin, Len(src))
        e == Min(end, Len(src))
    IN  IF e <= b THEN <<>> ELSE SubSeq(src, b + 1, e)

\* dst.set(part, offset)
TypedArraySet(dst, part, offset) ==
    [k \in 1..Len(dst) |->
        IF k > offset /\ k <= offset + Len(part) THEN part[k - offset] ELSE dst[k]]

\* for (let y = 0; y < rows; y++) dst.set(src.subarray(y*rowStride, y*rowStride + rowStride), y*alignedStride)
RECURSIVE CopyRows(_, _, _, _, _, _)
CopyRows(dst, src, y, rows, rowStride, alignedStride) ==
    IF y >= rows THEN dst
    ELSE CopyRows(TypedArraySet(dst,
                                Subarray(src, y * rowStride, y * rowStride + rowStride),
                                y * alignedStride),
                  src, y + 1, rows, rowStride, alignedStride)

\* A mutant of padRows: always repacks, even when the stride is aligned.
padRowsAlwaysCopy(src, width, height, bytesPerPixel) ==
    LET rowStride == width * bytesPerPixel
        alignedStride == AlignedStride(rowStride)
    IN  [alloc |-> TRUE,
         bytes |-> CopyRows(NewUint8Array(alignedStride * height), src, 0, height,
                            rowStride, alignedStride),
         bytesPerRow |-> alignedStride]

\* padRows(src, width, height, bytesPerPixel): alloc says whether a new buffer was
\* made (bytes is its content); without one, data is src itself.
padRows(src, width, height, bytesPerPixel) ==
    LET rowStride == width * bytesPerPixel
        alignedStride == AlignedStride(rowStride)
    IN  IF alignedStride = rowStride
        THEN [alloc |-> FALSE, bytes |-> <<>>, bytesPerRow |-> rowStride]
        ELSE [alloc |-> TRUE,
              bytes |-> CopyRows(NewUint8Array(alignedStride * height), src, 0, height,
                                 rowStride, alignedStride),
              bytesPerRow |-> alignedStride]

\* A mutant of BlockCount: the default block extent 4 whatever was passed.
BlockCountDefaultBlock(extent, blockExtent) == Max(1, MathCeilDiv(extent, 4))

\* const wBlocks = Math.max(1, Math.ceil(width / blockWidth));
BlockCount(extent, blockExtent) == Max(1, MathCeilDiv(extent, blockExtent))

\* padBlockRowsBC(src, width, height, bytesPerBlock, blockWidth, blockHeight)
padBlockRowsBC(src, width, height, bytesPerBlock, blockWidth, blockHeight) ==
    LET wBlocks == BlockCount(width, blockWidth)
        hBlocks == BlockCount(height, blockHeight)
        rowBytes == wBlocks * bytesPerBlock
        alignedStride == AlignedStride(rowBytes)
    IN  IF alignedStride = rowBytes
        THEN [alloc |-> FALSE, bytes |-> <<>>, bytesPerRow |-> rowBytes,
              rowsPerImage |-> hBlocks]
        ELSE [alloc |-> TRUE,
              bytes |-> CopyRows(NewUint8Array(alignedStride * hBlocks), src, 0, hBlocks,
                                 rowBytes, alignedStride),
              bytesPerRow |-> alignedStride,
              rowsPerImage |-> hBlocks]

(***************************************************************************)
(* The planner's inputs.                                                   *)
(***************************************************************************)
BytesPerSet == {1, 4, 8, 16}
BlockDims == {<<1, 1>>, <<4, 4>>, <<4, 2>>}

\* The source bytes: never 0, so that padding is told from data.
SrcByte(k) == ((k * 7) % 255) + 1

SrcRef == 1

\* Long enough for either call: width*bytesPer*height and wBlocks*bytesPer*hBlocks.
SrcLen(in) ==
    Max(in.width * in.bytesPer * in.height,
        BlockCount(in.width, in.blockWidth) * in.bytesPer
            * BlockCount(in.height, in.blockHeight))

\* A mutant of HeapAfter: the padded rows are written over src.
HeapAfterInPlace(h, r) == IF r.alloc THEN [h EXCEPT ![SrcRef] = r.bytes] ELSE h

\* The buffers after a call: the one made by new Uint8Array(...) and filled by
\* dst.set(...) is added; src.subarray(...) is a view and writes nothing.
HeapAfter(h, r) == IF r.alloc THEN Append(h, r.bytes) ELSE h

PadInit ==
    /\ padIn \in [width : 0..MaxWidth, height : 0..MaxHeight, bytesPer : BytesPerSet,
                  blockWidth : {1, 4}, blockHeight : {1, 2, 4}]
    /\ <<padIn.blockWidth, padIn.blockHeight>> \in BlockDims
    /\ heap = <<[k \in 1..SrcLen(padIn) |-> SrcByte(k)]>>
    /\ rowsRet = Null
    /\ bcRet = Null

PadRowsCall ==
    /\ rowsRet = Null
    /\ LET r == padRows(heap[SrcRef], padIn.width, padIn.height, padIn.bytesPer)
       IN  /\ heap' = HeapAfter(heap, r)
           /\ rowsRet' = [data |-> IF r.alloc THEN Len(heap) + 1 ELSE SrcRef,
                          bytesPerRow |-> r.bytesPerRow]
    /\ UNCHANGED <<padIn, bcRet, padFrame>>

PadBlockRowsBCCall ==
    /\ bcRet = Null
    /\ LET r == padBlockRowsBC(heap[SrcRef], padIn.width, padIn.height, padIn.bytesPer,
                               padIn.blockWidth, padIn.blockHeight)
       IN  /\ heap' = HeapAfter(heap, r)
           /\ bcRet' = [data |-> IF r.alloc THEN Len(heap) + 1 ELSE SrcRef,
                        bytesPerRow |-> r.bytesPerRow,
                        rowsPerImage |-> r.rowsPerImage]
    /\ UNCHANGED <<padIn, rowsRet, padFrame>>

PadNext == PadRowsCall \/ PadBlockRowsBCCall

(***************************************************************************)
(* Bytes.  A buffer is a sequence of bytes; byte offset o is element o+1.  *)
(***************************************************************************)
\* A number below 2^31 as a uint32 <<hi16, lo16>>.
U32(n) == <<n \div 65536, n % 65536>>

\* A uint32 as one integer (TLC reports an overflow for values >= 2^31).
Nat32(p) == p[1] * 65536 + p[2]

\* dv.getUint32(off, true): four bytes, little-endian.
getUint32(buf, off) ==
    <<buf[off + 3] + 256 * buf[off + 4], buf[off + 1] + 256 * buf[off + 2]>>

\* A mutant of getBigUint64Number: reads the high word only.
getBigUint64NumberHigh(buf, off) == Nat32(getUint32(buf, off + 4))

\* What stands for every number of 2^31 - 1 or more: the program only compares
\* such a number with lengths far below it.
Huge == 2147483647

\* Number(dv.getBigUint64(off, true)): a value below 2^31 - 1 is the number itself.
getBigUint64Number(buf, off) ==
    LET lo == getUint32(buf, off)
        hi == getUint32(buf, off + 4)
    IN  IF hi = <<0, 0>> /\ lo[1] < 32768 THEN Min(Nat32(lo), Huge) ELSE Huge

\* header.writeUInt32LE(value, off)
writeUInt32LE(p) == <<p[2] % 256, p[2] \div 256, p[1] % 256, p[1] \div 256>>

\* header.writeBigUInt64LE(BigInt(n), off), n below 2^31
writeBigUInt64LE(n) == writeUInt32LE(U32(n)) \o <<0, 0, 0, 0>>

Zeros(n) == [k \in 1..n |-> 0]

RECURSIVE Flatten(_)
Flatten(parts) == IF parts = <<>> THEN <<>> ELSE Head(parts) \o Flatten(Tail(parts))

(***************************************************************************)
(* The container builder, src/test_textures/makeHDR.js createBC6H_KTX2,    *)
(* with the values it writes as parameters.                                *)
(***************************************************************************)
KTX2_IDENTIFIER == <<171, 75, 84, 88, 32, 50, 48, 187, 13, 10, 26, 10>>

HeaderFields == <<"vkFormat", "typeSize", "pixelWidth", "pixelHeight", "pixelDepth",
                  "layerCount", "faceCount", "levelCount", "supercompressionScheme">>

\* The 28-byte DFD block the builder writes; colorModel is its byte 12.
BuildDFD(colorModel) ==
    writeUInt32LE(U32(28)) \o <<0, 0>> \o <<0, 0>> \o <<2, 0>> \o <<24, 0>>
        \o <<colorModel, 1, 2, 0>> \o <<3, 3, 0, 0>> \o <<16, 0, 0, 0, 0, 0, 0, 0>>

\* The payload bytes: never 0.
PayloadByte(k) == ((k * 11) % 255) + 1

\* const dfdByteOffset = 12 + 68 + levelIndexSize; the level data follows the
\* DFD and the KVD, 4-byte aligned, one level after the other.
DfdOffsetOf(nEntries) == 12 + 68 + 24 * nEntries

RECURSIVE LevelOffsets(_, _)
LevelOffsets(start, lengths) ==
    IF lengths = <<>> THEN <<>>
    ELSE <<start>> \o LevelOffsets(start + Head(lengths), Tail(lengths))

SumSeq(q) == LET RECURSIVE S(_)
                 S(r) == IF r = <<>> THEN 0 ELSE Head(r) + S(Tail(r))
             IN  S(q)

\* What the builder is asked to write: the nine header values (uint32), the DFD
\* colour model, the KVD bytes (and what kvdByteLength declares beyond them), the
\* SGD offset and length, and the stored and declared length of every level.
BuilderIndex(b) ==
    LET n == Len(b.levelBytes)
        dfdByteOffset == DfdOffsetOf(n)
        dfdByteLength == 28
        kvdByteOffset == dfdByteOffset + dfdByteLength
        kvdByteLength == Len(b.kvd) + b.kvdExtra
        dataOffset == kvdByteOffset + Len(b.kvd)
        alignedDataOffset == MathCeilDiv(dataOffset, 4) * 4
    IN  [dfdByteOffset |-> U32(dfdByteOffset), dfdByteLength |-> U32(dfdByteLength),
         kvdByteOffset |-> U32(kvdByteOffset), kvdByteLength |-> U32(kvdByteLength),
         sgdByteOffset |-> b.sgd[1], sgdByteLength |-> b.sgd[2],
         dataOffset |-> dataOffset, alignedDataOffset |-> alignedDataOffset]

BuilderLevels(b) ==
    LET offs == LevelOffsets(BuilderIndex(b).alignedDataOffset, b.levelBytes)
    IN  [i \in 1..Len(b.levelBytes) |->
            [byteOffset |-> offs[i], byteLength |-> b.levelBytes[i],
             uncompressedByteLength |-> b.levelDeclared[i]]]

createKTX2(b) ==
    LET ix == BuilderIndex(b)
        lv == BuilderLevels(b)
        headerBytes == Flatten([k \in 1..9 |-> writeUInt32LE(b.header[HeaderFields[k]])])
        idx == writeUInt32LE(ix.dfdByteOffset) \o writeUInt32LE(ix.dfdByteLength)
                 \o writeUInt32LE(ix.kvdByteOffset) \o writeUInt32LE(ix.kvdByteLength)
                 \o writeBigUInt64LE(ix.sgdByteOffset) \o writeBigUInt64LE(ix.sgdByteLength)
        levelIndexBytes == Flatten([i \in 1..Len(lv) |->
                         writeBigUInt64LE(lv[i].byteOffset)
                           \o writeBigUInt64LE(lv[i].byteLength)
                           \o writeBigUInt64LE(lv[i].uncompressedByteLength)])
        padding == Zeros(ix.alignedDataOffset - ix.dataOffset)
        data == [k \in 1..SumSeq(b.levelBytes) |-> PayloadByte(k)]
    IN  KTX2_IDENTIFIER \o headerBytes \o idx \o levelIndexBytes \o BuildDFD(b.colorModel)
          \o b.kvd \o padding \o data

(***************************************************************************)
(* parseKTX2, src/src/extension.ts (with BasisLZ transcoding) and          *)
(* src/media/read.js (which rejects BasisLZ).                              *)
(***************************************************************************)
SUPERCOMPRESSION_NONE == 0
SUPERCOMPRESSION_BASIS_LZ == 1
SUPERCOMPRESSION_ZSTD == 2
SUPERCOMPRESSION_ZLIB == 3

RECURSIVE Pow2(_)
Pow2(k) == IF k = 0 THEN 1 ELSE 2 * Pow2(k - 1)

\* ToInt32 of a uint32: values >= 2^31 are negative.
ToInt32(p) == IF p[1] >= 32768 THEN (p[1] - 65536) * 65536 + p[2] ELSE p[1] * 65536 + p[2]

\* floor(x / d) for d >= 1 and any 32-bit x
FloorDiv(x, d) == IF x >= 0 THEN x \div d ELSE -((-(x + 1)) \div d) - 1

\* value >> i in JavaScript: ToInt32(value) shifted, sign kept, by i mod 32 bits.
ShiftRight(p, i) ==
    LET x == ToInt32(p)
        k == i % 32
    IN  IF k = 31 THEN (IF x < 0 THEN -1 ELSE 0) ELSE FloorDiv(x, Pow2(k))

\* A mutant of parseDFD: a colour model other than 163 is an error.
parseDFDOnlyETC1S(buf, baseOffset, length) ==
    IF baseOffset > Len(buf) \/ baseOffset + length > Len(buf) \/ length < 28
    THEN [error |-> "RangeError"]
    ELSE IF buf[baseOffset + 13] # 163 THEN [error |-> "RangeError"]
    ELSE LET b(o) == buf[baseOffset + o + 1]
             u16(o) == b(o) + 256 * b(o + 1)
         IN  [error |-> "none",
              totalSize |-> getUint32(buf, baseOffset),
              vendorId |-> u16(4), descriptorType |-> u16(6),
              versionNumber |-> u16(8), descriptorBlockSize |-> u16(10),
              colorModel |-> b(12), colorPrimaries |-> b(13),
              transferFunction |-> b(14), flags |-> b(15),
              texelBlockDimension |-> <<b(16), b(17), b(18), b(19)>>,
              bytesPlane |-> [k \in 1..8 |-> b(19 + k)]]

\* parseDFD(dv, baseOffset, length): new DataView(dv.buffer, baseOffset, length)
\* and 28 bytes of reads; either throws a RangeError.
parseDFD(buf, baseOffset, length) ==
    IF baseOffset > Len(buf) \/ baseOffset + length > Len(buf) \/ length < 28
    THEN [error |-> "RangeError"]
    ELSE LET b(o) == buf[baseOffset + o + 1]
             u16(o) == b(o) + 256 * b(o + 1)
         IN  [error |-> "none",
              totalSize |-> getUint32(buf, baseOffset),
              vendorId |-> u16(4), descriptorType |-> u16(6),
              versionNumber |-> u16(8), descriptorBlockSize |-> u16(10),
              colorModel |-> b(12), colorPrimaries |-> b(13),
              transferFunction |-> b(14), flags |-> b(15),
              texelBlockDimension |-> <<b(16), b(17), b(18), b(19)>>,
              bytesPlane |-> [k \in 1..8 |-> b(19 + k)]]

\* str.indexOf('\0') on the decoded record (bytes below 128 decode to themselves);
\* 0 when there is none, else the 1-based place.
NullPos(bytes) ==
    IF \E k \in 1..Len(bytes) : bytes[k] = 0
    THEN CHOOSE k \in 1..Len(bytes) : bytes[k] = 0 /\ \A j \in 1..(k - 1) : bytes[j] # 0
    ELSE 0

\* A mutant of KvdAdvance: no padding after the record.
KvdAdvanceNoPadding(kvByteLength) == 4 + kvByteLength

\* What one pass adds to the cursor: offset += 4; offset += kvByteLength;
\* offset += (4 - (kvByteLength % 4)) % 4.
KvdAdvance(kvByteLength) == 4 + kvByteLength + ((4 - (kvByteLength % 4)) % 4)

\* The while loop of parseKVD from cursor offset on; kv is the entries so far and
\* cursors the offsets at which the passes so far began.
RECURSIVE parseKVDFrom(_, _, _, _, _)
parseKVDFrom(buf, offset, end, kv, cursors) ==
    IF ~(offset < end) THEN [error |-> "none", kv |-> kv, cursors |-> cursors]
    ELSE LET began == Append(cursors, offset)
         IN
         IF offset + 4 > Len(buf) THEN [error |-> "RangeError", kv |-> kv, cursors |-> began]
         ELSE LET kvByteLength == Nat32(getUint32(buf, offset))
                  at == offset + 4
              IN  IF kvByteLength = 0 THEN [error |-> "none", kv |-> kv, cursors |-> began]
                  ELSE IF at + kvByteLength > Len(buf)
                  THEN [error |-> "RangeError", kv |-> kv, cursors |-> began]
                  ELSE LET bytes == SubSeq(buf, at + 1, at + kvByteLength)
                           nullPos == NullPos(bytes)
                           kv2 == IF nullPos > 0
                                  THEN Append(kv, [key |-> SubSeq(bytes, 1, nullPos - 1),
                                                   value |-> SubSeq(bytes, nullPos + 1, Len(bytes))])
                                  ELSE kv
                       IN  parseKVDFrom(buf, offset + KvdAdvance(kvByteLength), end, kv2, began)

\* parseKVD(dv, baseOffset, length)
parseKVD(buf, baseOffset, length) ==
    parseKVDFrom(buf, baseOffset, baseOffset + length, <<>>, <<>>)

\* A mutant of LevelCountOf: one level whatever the header declares.
LevelCountOfOne(hdr) == 1

\* const levelCount = Math.max(1, header.levelCount || 1);
LevelCountOf(hdr) == Max(1, IF Nat32(hdr.levelCount) = 0 THEN 1 ELSE Nat32(hdr.levelCount))

\* A mutant of ReadLevel: entries taken 16 bytes apart.
ReadLevelPacked(buf, hdr, i) ==
    LET offset == 80 + 16 * i
    IN  [byteOffset |-> getBigUint64Number(buf, offset),
         byteLength |-> getBigUint64Number(buf, offset + 8),
         uncompressedByteLength |-> getBigUint64Number(buf, offset + 16),
         width |-> Max(1, ShiftRight(hdr.pixelWidth, i)),
         height |-> Max(1, ShiftRight(hdr.pixelHeight, i)),
         isDecompressed |-> FALSE, decompressedData |-> Null, transcodedFormat |-> Null]

\* One pass of the level-index loop: entry i (from 0) read at offset 80 + 24*i.
ReadLevel(buf, hdr, i) ==
    LET offset == 80 + 24 * i
    IN  [byteOffset |-> getBigUint64Number(buf, offset),
         byteLength |-> getBigUint64Number(buf, offset + 8),
         uncompressedByteLength |-> getBigUint64Number(buf, offset + 16),
         width |-> Max(1, ShiftRight(hdr.pixelWidth, i)),
         height |-> Max(1, ShiftRight(hdr.pixelHeight, i)),
         isDecompressed |-> FALSE, decompressedData |-> Null, transcodedFormat |-> Null]

\* A mutant of IdentifierMatches: compares the first four bytes only.
IdentifierMatchesFirstFour(buf) == \A i \in 1..4 : buf[i] = KTX2_IDENTIFIER[i]

\* for (let i = 0; i < 12; i++) if (id[i] !== KTX2_IDENTIFIER[i]) throw ...
IdentifierMatches(buf) == \A i \in 1..12 : buf[i] = KTX2_IDENTIFIER[i]

\* The synchronous head of parseKTX2, up to the scheme dispatch: the error thrown,
\* or the header, index, levels, dfd and kvd and where the dispatch goes next.
ParseHead(which, buf) ==
    LET fail(e) == [error |-> e]
    IN
    IF Len(buf) < 12 THEN fail("RangeError")
    ELSE IF ~IdentifierMatches(buf) THEN fail("Invalid KTX2 identifier")
    ELSE IF Len(buf) < 12 + 68 THEN fail("KTX2 too small to contain header.")
    ELSE
    LET hdr == [k \in {HeaderFields[j] : j \in 1..9} |->
                      getUint32(buf, 12 + 4 * ((CHOOSE j \in 1..9 : HeaderFields[j] = k) - 1))]
        idx == [dfdByteOffset |-> getUint32(buf, 48), dfdByteLength |-> getUint32(buf, 52),
                  kvdByteOffset |-> getUint32(buf, 56), kvdByteLength |-> getUint32(buf, 60),
                  sgdByteOffset |-> getBigUint64Number(buf, 64),
                  sgdByteLength |-> getBigUint64Number(buf, 72)]
        levelCount == LevelCountOf(hdr)
    IN
    IF 80 + 24 * levelCount > Len(buf) THEN fail("RangeError")
    ELSE
    LET lvs == [i \in 1..levelCount |-> ReadLevel(buf, hdr, i - 1)]
        dfdR == IF Nat32(idx.dfdByteLength) > 0
               THEN parseDFD(buf, Nat32(idx.dfdByteOffset), Nat32(idx.dfdByteLength))
               ELSE Null
        kvdR == IF Nat32(idx.kvdByteLength) > 0
               THEN parseKVD(buf, Nat32(idx.kvdByteOffset), Nat32(idx.kvdByteLength))
               ELSE Null
        scheme == Nat32(hdr.supercompressionScheme)
        parsed(next) == [error |-> "none", header |-> hdr, index |-> idx,
                         levels |-> lvs, dfd |-> dfdR,
                         kvd |-> IF kvdR = Null THEN Null ELSE kvdR.kv, next |-> next]
    IN
    IF dfdR # Null /\ dfdR.error # "none" THEN fail("RangeError")
    ELSE IF kvdR # Null /\ kvdR.error # "none" THEN fail("RangeError")
    ELSE IF scheme = SUPERCOMPRESSION_ZSTD THEN parsed("awaitFzstd")
    ELSE IF scheme = SUPERCOMPRESSION_BASIS_LZ
         THEN IF which = "extension.ts" THEN parsed("awaitBasis")
              ELSE fail("BasisLZ supercompression not yet supported")
    ELSE IF scheme = SUPERCOMPRESSION_ZLIB THEN fail("Zlib supercompression not yet supported")
    ELSE IF scheme # SUPERCOMPRESSION_NONE THEN fail("Unknown supercompression scheme")
    ELSE parsed("returned")

(***************************************************************************)
(* The inputs of a parse.                                                  *)
(***************************************************************************)
MaxLevels == 3
MaxScheme == 4

BigWidth == <<32768, 0>>          \* 2^31
BigHeight == <<65535, 65535>>     \* 2^32 - 1

Dims == {<<U32(0), U32(0)>>, <<U32(1), U32(1)>>, <<U32(5), U32(5)>>,
         <<U32(10), U32(10)>>, <<U32(10), U32(3)>>, <<BigWidth, BigHeight>>}

\* vkFormat values: undefined, every value from 130 to 147 (the BC formats are
\* 131, 132 and 135..146), and a large one.
VkFormats == {U32(f) : f \in {0} \cup (130..147)} \cup {<<258, 772>>}

\* typeSize, pixelDepth, layerCount, faceCount: as the builder writes them (a 2D
\* texture), a cube map, a volume.
Shapes == {[typeSize |-> U32(1), pixelDepth |-> U32(0), layerCount |-> U32(0), faceCount |-> U32(1)],
           [typeSize |-> U32(1), pixelDepth |-> U32(0), layerCount |-> U32(0), faceCount |-> U32(6)],
           [typeSize |-> <<1, 515>>, pixelDepth |-> U32(4), layerCount |-> U32(300), faceCount |-> U32(1)]}

BuilderShape == [typeSize |-> U32(1), pixelDepth |-> U32(0), layerCount |-> U32(0), faceCount |-> U32(1)]

\* The bytes a level of the given format and size holds (16-byte 4x4 blocks), for
\* sizes below 2^31; a level of a larger texture is given one block.
LevelBytesOf(dim, i) ==
    LET w == IF dim[1][1] >= 32768 \/ i > 30 THEN 1 ELSE Max(1, Nat32(dim[1]) \div Pow2(i))
        h == IF dim[2][1] >= 32768 \/ i > 30 THEN 1 ELSE Max(1, Nat32(dim[2]) \div Pow2(i))
    IN  MathCeilDiv(w, 4) * MathCeilDiv(h, 4) * 16

BuilderInput(dim, levelCount, scheme, vkFormat, shape) ==
    LET n == Max(1, levelCount)
        bytes == [i \in 1..n |-> LevelBytesOf(dim, i - 1)]
    IN  [header |-> [vkFormat |-> vkFormat, typeSize |-> shape.typeSize,
                     pixelWidth |-> dim[1], pixelHeight |-> dim[2],
                     pixelDepth |-> shape.pixelDepth, layerCount |-> shape.layerCount,
                     faceCount |-> shape.faceCount, levelCount |-> U32(levelCount),
                     supercompressionScheme |-> U32(scheme)],
         colorModel |-> 128,
         kvd |-> <<>>,
         levelBytes |-> bytes,
         levelDeclared |-> bytes,
         kvdExtra |-> 0, sgd |-> <<0, 0>>,
         corruptAt |-> 0, corruptBy |-> 0, cut |-> 0 - 1]

\* createBC6H_KTX2(width, height): format 143, one level, no supercompression.
createBC6H_KTX2(width, height) ==
    createKTX2(BuilderInput(<<U32(width), U32(height)>>, 1, 0, U32(143), BuilderShape))

\* Containers of every size, level count and scheme.
MainInputs ==
    {BuilderInput(dim, n, scheme, U32(145), BuilderShape) :
        dim \in Dims, n \in 0..MaxLevels, scheme \in 0..MaxScheme}

\* Containers of every format and shape.
FormatInputs ==
    {BuilderInput(<<U32(10), U32(10)>>, 1, 0, f, sh) : f \in VkFormats \cup {U32(143)}, sh \in Shapes}

\* Containers with one byte of the identifier altered.
CorruptInputs ==
    {[BuilderInput(<<U32(10), U32(10)>>, 1, scheme, U32(145), BuilderShape)
        EXCEPT !.corruptAt = at, !.corruptBy = by] :
        at \in 1..12, by \in {1, 128}, scheme \in 0..2}

\* A container with more than 32 levels.
DeepLevels == 33
DeepInputs == {BuilderInput(<<U32(10), U32(10)>>, DeepLevels, 0, U32(145), BuilderShape)}

\* The lengths files are cut to: around the identifier (12), the fixed header
\* (80), the level index (104 for one level, 152 for three), the DFD and the data.
Cuts == {0, 1, 11, 12, 13, 79, 80, 81, 103, 104, 105, 131, 132, 151, 152, 153, 180, 200}

\* Files cut short, with one level and with three; some with the first
\* identifier byte altered as well.
TruncatedInputs ==
    {[BuilderInput(<<U32(10), U32(10)>>, n, scheme, U32(145), BuilderShape)
        EXCEPT !.cut = c, !.corruptAt = at, !.corruptBy = at] :
        n \in {1, 3}, scheme \in {0, 2}, c \in Cuts, at \in {0, 1}}

\* Whole files whose header declares more levels than the level index holds: a
\* 1x1 texture with one entry (148 bytes) and a 10x10 one (276 bytes).
OverDeclaredInputs ==
    {[BuilderInput(dim, 1, 0, U32(145), BuilderShape) EXCEPT !.header.levelCount = U32(n)] :
        dim \in {<<U32(1), U32(1)>>, <<U32(10), U32(10)>>}, n \in {2, 3, 9}}

\* Containers whose index declares supercompression global data, or key/value
\* data, reaching past the end of the file.
LooseIndexInputs ==
    {[BuilderInput(<<U32(10), U32(10)>>, 1, 0, U32(145), BuilderShape)
        EXCEPT !.sgd = g, !.kvd = kv[1], !.kvdExtra = kv[2]] :
        g \in {<<0, 0>>, <<1000, 1000>>, <<0, 5000>>},
        kv \in {<<(<<>>), 0>>, <<(<<0, 0, 0, 0>>), 5000>>}}

\* Zstd containers of a format outside the format tables.
ZstdFormatInputs ==
    {BuilderInput(<<U32(10), U32(10)>>, 1, SUPERCOMPRESSION_ZSTD, f, BuilderShape) :
        f \in {U32(0), U32(130), U32(147)}}

\* Containers whose dfdByteLength (the byte at 52) declares 1, 4, 27 or 32 bytes
\* instead of the 28 the builder wrote; the region lies inside the file.
ShortDfdInputs ==
    {[BuilderInput(<<U32(10), U32(10)>>, 1, scheme, U32(145), BuilderShape)
        EXCEPT !.corruptAt = 53, !.corruptBy = by] :
        by \in {229, 232, 255, 4}, scheme \in {0, 2}}

\* Key/value blocks: records of length 5 ("ab" NUL "cd", 3 bytes of padding),
\* 4, 3 (no NUL), 0 and 200.
KvRecord5 == <<5, 0, 0, 0, 97, 98, 0, 99, 100, 0, 0, 0>>
KvRecord4 == <<4, 0, 0, 0, 101, 0, 102, 103>>
KvRecord3 == <<3, 0, 0, 0, 97, 98, 99, 0>>
KvRecord0 == <<0, 0, 0, 0>>
KvRecord200 == <<200, 0, 0, 0, 104, 0, 105, 0>>

KvBlocks ==
    {KvRecord5, KvRecord5 \o KvRecord4, KvRecord3 \o KvRecord5 \o KvRecord4,
     KvRecord5 \o KvRecord0 \o KvRecord4, KvRecord0 \o KvRecord5,
     KvRecord4 \o KvRecord200, KvRecord200}

\* Containers with a key/value block, declared whole, 6 bytes short (the region
\* ends inside a record) or 8 bytes long (it runs on into the level data).
KvdInputs ==
    {[BuilderInput(<<U32(10), U32(10)>>, n, 0, U32(145), BuilderShape)
        EXCEPT !.kvd = kv, !.kvdExtra = extra] :
        kv \in KvBlocks, extra \in {0, 0 - 6, 8}, n \in {0, 3}}

\* The DFD colour models of ETC1S (163) and UASTC (166).
ColourModels == {163, 166}

\* BasisLZ containers of either colour model.
ColourModelInputs ==
    {[BuilderInput(<<U32(10), U32(10)>>, 1, SUPERCOMPRESSION_BASIS_LZ, U32(0), BuilderShape)
        EXCEPT !.colorModel = m] : m \in ColourModels}

Inputs == MainInputs \cup FormatInputs \cup CorruptInputs \cup DeepInputs
            \cup TruncatedInputs \cup OverDeclaredInputs \cup LooseIndexInputs
            \cup ZstdFormatInputs \cup ShortDfdInputs \cup KvdInputs
            \cup ColourModelInputs

\* The file of an input: what the builder wrote, with the altered byte if any,
\* cut to the given length if any.
FileOf(b) ==
    LET f == createKTX2(b)
        g == IF b.corruptAt = 0 THEN f
             ELSE [f EXCEPT ![b.corruptAt] = (f[b.corruptAt] + b.corruptBy) % 256]
    IN  IF b.cut < 0 \/ b.cut >= Len(g) THEN g ELSE SubSeq(g, 1, b.cut)

NoBasis == [kind |-> "none", format |-> 0, transcoderLevelCount |-> 0, safeLevelCount |-> 0]

\* The state at the call of parseKTX2 on the file of one of the given inputs.
ParseInitFrom(inputs) ==
    /\ variant \in {"extension.ts", "read.js"}
    /\ built \in inputs
    /\ arrayBuffer = FileOf(built)
    /\ device \in {"bc", "nobc", "undefined"}
    /\ device = "undefined" => built.header.supercompressionScheme = U32(SUPERCOMPRESSION_BASIS_LZ)
    /\ fzstdLoaded \in BOOLEAN
    /\ fzstdLoaded => built.header.supercompressionScheme = U32(SUPERCOMPRESSION_ZSTD)
    /\ pc = "start"
    /\ header = Null /\ index = Null /\ levels = <<>> /\ dfd = Null /\ kvd = Null
    /\ error = "none"
    /\ lvl = 0
    /\ calls = <<>>
    /\ basis = NoBasis

ParseInit == ParseInitFrom(Inputs)

(***************************************************************************)
(* parseKTX2 as a state machine: one action per stretch between awaits,    *)
(* and one per pass of a level loop.                                       *)
(***************************************************************************)
Throw(e) == pc' = "threw" /\ error' = e

\* From the call to the scheme dispatch (no await in between).
ParseKTX2Head ==
    /\ pc = "start"
    /\ LET r == ParseHead(variant, arrayBuffer)
       IN  IF r.error # "none"
           THEN /\ Throw(r.error)
                /\ UNCHANGED <<header, index, levels, dfd, kvd>>
           ELSE /\ header' = r.header /\ index' = r.index /\ levels' = r.levels
                /\ dfd' = r.dfd /\ kvd' = r.kvd
                /\ pc' = r.next
                /\ error' = error
    /\ UNCHANGED <<variant, built, arrayBuffer, device, lvl, calls, fzstdLoaded, basis,
                   parseFrame>>

\* await loadFzstd(): nothing to do once loaded; else a script element is appended,
\* and the load ends with fzstd defined, with a script error, or with fzstd undefined.
LoadFzstd ==
    /\ pc = "awaitFzstd"
    /\ IF fzstdLoaded
       THEN /\ pc' = "zstdLevels"
            /\ UNCHANGED <<error, calls, fzstdLoaded>>
       ELSE \E outcome \in {"loaded", "Failed to load fzstd library",
                            "fzstd library not available after loading"} :
              /\ calls' = Append(calls, [op |-> "appendChild", what |-> "fzstd"])
              /\ IF outcome = "loaded"
                 THEN pc' = "zstdLevels" /\ fzstdLoaded' = TRUE /\ error' = error
                 ELSE Throw(outcome) /\ fzstdLoaded' = FALSE
    /\ lvl' = 0
    /\ UNCHANGED <<variant, built, arrayBuffer, device, header, index, levels, dfd, kvd,
                   basis, parseFrame>>

\* new Uint8Array(arrayBuffer, byteOffset, byteLength) throws a RangeError when the
\* range is not inside the buffer.
SliceInRange(buf, byteOffset, byteLength) ==
    /\ byteOffset <= Len(buf) /\ byteLength <= Len(buf) - byteOffset

\* What the decompressor returns: never 0.
ZByte(k) == ((k * 13) % 255) + 1

\* The lengths an external decompressor may return for a declared length.
DecompressedLengths(declared) == {declared, declared + 1, declared \div 2}

\* A mutant of AfterDecompress: a length other than the declared one is fatal.
AfterDecompressStrict(length, declared) == IF length = declared THEN "stored" ELSE "threw"

\* if (decompressed.length !== level.uncompressedByteLength) console.warn(...):
\* the level is stored whatever its length.
AfterDecompress(length, declared) == "stored"

\* One pass of the Zstd loop, for level lvl; after the last level parseKTX2 returns.
ZstdLevel ==
    /\ pc = "zstdLevels"
    /\ lvl < Len(levels)
    /\ LET level == levels[lvl + 1]
       IN  IF ~SliceInRange(arrayBuffer, level.byteOffset, level.byteLength)
           THEN /\ Throw("RangeError")
                /\ UNCHANGED <<levels, lvl, calls>>
           ELSE \/ \E n \in DecompressedLengths(level.uncompressedByteLength) :
                     /\ calls' = Append(calls, [op |-> "fzstdDecompress", level |-> lvl,
                                                threw |-> FALSE, ret |-> n])
                     /\ IF AfterDecompress(n, level.uncompressedByteLength) = "stored"
                        THEN /\ levels' = [levels EXCEPT ![lvl + 1].decompressedData =
                                                             [k \in 1..n |-> ZByte(k)],
                                                         ![lvl + 1].isDecompressed = TRUE]
                             /\ lvl' = lvl + 1
                             /\ pc' = IF lvl + 1 < Len(levels) THEN "zstdLevels" ELSE "returned"
                             /\ error' = error
                        ELSE /\ Throw("Failed to decompress level")
                             /\ UNCHANGED <<levels, lvl>>
                \/ /\ calls' = Append(calls, [op |-> "fzstdDecompress", level |-> lvl,
                                              threw |-> TRUE, ret |-> 0])
                   /\ Throw("Failed to decompress level")
                   /\ UNCHANGED <<levels, lvl>>
    /\ UNCHANGED <<variant, built, arrayBuffer, device, header, index, dfd, kvd,
                   fzstdLoaded, basis, parseFrame>>

\* await loadBasisModule(): the promise resolves with the module or rejects.
LoadBasisModule ==
    /\ pc = "awaitBasis"
    /\ \E loaded \in BOOLEAN :
          /\ calls' = Append(calls, [op |-> "loadBasisModule", ret |-> loaded])
          /\ IF loaded THEN pc' = "basisOpen" /\ error' = error
                       ELSE Throw("Basis module failed to load")
    /\ UNCHANGED <<variant, built, arrayBuffer, device, header, index, levels, dfd, kvd,
                   lvl, fzstdLoaded, basis, parseFrame>>

\* The fallback constants of getBasisTargetFormatForGPU and the values a module
\* that exports cTFBC7_RGBA / cTFRGBA32 gives.
TF_BC7_RGBA == 2
TF_RGBA32 == 13
cTFBC7_RGBA == 6

\* getBasisTargetFormatForGPU(device): reading device.features of an undefined
\* device is a TypeError (given here as -1).
getBasisTargetFormatForGPU(dev, exported) ==
    IF dev = "undefined" THEN 0 - 1
    ELSE IF dev = "bc" THEN (IF exported THEN cTFBC7_RGBA ELSE TF_BC7_RGBA)
    ELSE TF_RGBA32

\* basisFile.close(); basisFile.delete();
CloseAndDelete(log) == log \o <<[op |-> "close"], [op |-> "delete"]>>

\* A mutant of SafeLevelCount: trusts the header's count.
SafeLevelCountDeclared(declared, reported) == declared

\* const safeLevelCount = Math.min(levels.length, transcoderLevelCount);
SafeLevelCount(declared, reported) == Min(declared, reported)

\* From the module's arrival to the level loop: open the file, start transcoding,
\* count the images, choose the target format, ask for the level count.  With no
\* level to transcode the file is closed and parseKTX2 returns.
BasisOpen ==
    /\ pc = "basisOpen"
    /\ \E hasKTX2File \in BOOLEAN, ctorThrows \in BOOLEAN, started \in BOOLEAN,
          numImages \in {"absent", "0", "1"}, exported \in BOOLEAN,
          queryThrows \in BOOLEAN, reported \in 0..(MaxLevels + 1) :
          LET kind == IF hasKTX2File /\ ~ctorThrows THEN "KTX2File" ELSE "BasisFile"
              isKTX2File == kind = "KTX2File"
              opened == calls
                          \o (IF hasKTX2File
                              THEN <<[op |-> "new KTX2File", ret |-> ~ctorThrows]>> ELSE <<>>)
                          \o (IF ~isKTX2File THEN <<[op |-> "new BasisFile"]>> ELSE <<>>)
                          \o <<[op |-> "startTranscoding", ret |-> started]>>
              imageCount == IF ~isKTX2File /\ numImages = "0" THEN 0 ELSE 1
              counted == IF ~isKTX2File /\ numImages # "absent"
                         THEN Append(opened, [op |-> "getNumImages", ret |-> numImages])
                         ELSE opened
              format == getBasisTargetFormatForGPU(device, exported)
              transcoderLevelCount == IF queryThrows THEN 1 ELSE reported
              queried == Append(counted, [op |-> IF isKTX2File THEN "getLevels" ELSE "getNumLevels",
                                          threw |-> queryThrows, ret |-> reported])
              safeLevelCount == SafeLevelCount(Len(levels), transcoderLevelCount)
          IN  IF ~started
              THEN /\ calls' = CloseAndDelete(opened)
                   /\ Throw("Transcoder failed to initialize.")
                   /\ basis' = [basis EXCEPT !.kind = kind]
              ELSE IF imageCount = 0
              THEN /\ calls' = CloseAndDelete(counted)
                   /\ Throw("File has no images")
                   /\ basis' = [basis EXCEPT !.kind = kind]
              ELSE IF format < 0
              THEN /\ calls' = counted
                   /\ Throw("TypeError")
                   /\ basis' = [basis EXCEPT !.kind = kind]
              ELSE /\ basis' = [kind |-> kind, format |-> format,
                                transcoderLevelCount |-> transcoderLevelCount,
                                safeLevelCount |-> safeLevelCount]
                   /\ error' = error
                   /\ IF safeLevelCount > 0
                      THEN pc' = "basisLevels" /\ calls' = queried
                      ELSE pc' = "returned" /\ calls' = CloseAndDelete(queried)
    /\ lvl' = 0
    /\ UNCHANGED <<variant, built, arrayBuffer, device, header, index, levels, dfd, kvd,
                   fzstdLoaded, parseFrame>>

\* What the transcoder writes for a level: never 0.
TByte(k) == ((k * 17) % 255) + 1

\* The sizes getImageTranscodedSizeInBytes may report for a level.
TranscodedSizes(level) ==
    {MathCeilDiv(level.width, 4) * MathCeilDiv(level.height, 4) * 16,
     level.width * level.height * 4}

\* break; // Stop trying deeper levels if one fails
AfterFailedLevel(i, safeLevelCount) == "returned"

\* One pass of the BasisLZ loop, for level lvl: the level is transcoded (status
\* true), or transcodeImage returns false, or a call throws (caught: status false).
\* After the last pass, or a failed one, the file is closed and parseKTX2 returns.
BasisTranscodeLevel ==
    /\ pc = "basisLevels"
    /\ lvl < basis.safeLevelCount
    /\ \/ \E size \in TranscodedSizes(levels[lvl + 1]) :
            LET next == IF lvl + 1 < basis.safeLevelCount THEN "basisLevels" ELSE "returned"
                done == Append(calls, [op |-> "transcodeImage", level |-> lvl,
                                       format |-> basis.format, ret |-> "true"])
            IN  /\ levels' = [levels EXCEPT ![lvl + 1].isDecompressed = TRUE,
                                            ![lvl + 1].decompressedData = [k \in 1..size |-> TByte(k)],
                                            ![lvl + 1].transcodedFormat = basis.format]
                /\ lvl' = lvl + 1
                /\ pc' = next
                /\ calls' = IF next = "returned" THEN CloseAndDelete(done) ELSE done
       \/ \E failure \in {"false", "throws"} :
            LET next == AfterFailedLevel(lvl, basis.safeLevelCount)
                done == Append(calls, [op |-> "transcodeImage", level |-> lvl,
                                       format |-> basis.format, ret |-> failure])
            IN  /\ levels' = levels
                /\ lvl' = IF next = "returned" THEN lvl ELSE lvl + 1
                /\ pc' = next
                /\ calls' = IF next = "returned" THEN CloseAndDelete(done) ELSE done
    /\ UNCHANGED <<variant, built, arrayBuffer, device, header, index, dfd, kvd, error,
                   fzstdLoaded, basis, parseFrame>>

ParseNext ==
    \/ ParseKTX2Head
    \/ LoadFzstd
    \/ ZstdLevel
    \/ LoadBasisModule
    \/ BasisOpen
    \/ BasisTranscodeLevel

(***************************************************************************)
(* The format table the loader uses: window.vkFormatToWebGPU as main.js    *)
(* installs it from transcoder.js.                                         *)
(***************************************************************************)
NATIVE_BC_FORMATS ==
    [f \in {131, 132} \cup (135..146) |->
        CASE f = 131 -> "bc1-rgba-unorm"      [] f = 132 -> "bc1-rgba-unorm-srgb"
          [] f = 135 -> "bc2-rgba-unorm"      [] f = 136 -> "bc2-rgba-unorm-srgb"
          [] f = 137 -> "bc3-rgba-unorm"      [] f = 138 -> "bc3-rgba-unorm-srgb"
          [] f = 139 -> "bc4-r-unorm"         [] f = 140 -> "bc4-r-snorm"
          [] f = 141 -> "bc5-rg-unorm"        [] f = 142 -> "bc5-rg-snorm"
          [] f = 143 -> "bc6h-rgb-ufloat"     [] f = 144 -> "bc6h-rgb-float"
          [] f = 145 -> "bc7-rgba-unorm"      [] f = 146 -> "bc7-rgba-unorm-srgb"]

\* vkFormatToWebGPU(vkFormat) of transcoder.js; vkFormat is a uint32.
vkFormatToWebGPU(vkFormat) ==
    IF vkFormat[1] = 0 /\ vkFormat[2] \in DOMAIN NATIVE_BC_FORMATS
    THEN [format |-> NATIVE_BC_FORMATS[vkFormat[2]],
          blockWidth |-> 4, blockHeight |-> 4, bytesPerBlock |-> 16]
    ELSE Null

\* vkFormatToWebGPU(vkFormat) of read.js (and of extension.ts): the same formats,
\* with 8 bytes a block for BC1 (131, 132) and BC4 (139, 140), 16 for the others.
readVkFormatToWebGPU(vkFormat) ==
    IF vkFormat[1] = 0 /\ vkFormat[2] \in DOMAIN NATIVE_BC_FORMATS
    THEN [format |-> NATIVE_BC_FORMATS[vkFormat[2]],
          blockWidth |-> 4, blockHeight |-> 4,
          bytesPerBlock |-> IF vkFormat[2] \in {131, 132, 139, 140} THEN 8 ELSE 16]
    ELSE Null

(***************************************************************************)
(* loadKTX2_ToTexture, src/media/main.js.                                  *)
(***************************************************************************)
NoWasm == [levelsCount |-> 0, log |-> <<>>]

LoadInit ==
    /\ lpc = "awaitParse"
    /\ lerror = "none"
    /\ decodedMips = Null
    /\ levelIndex = 0
    /\ wasm = NoWasm
    /\ srcTex = Null
    /\ uploads = <<>>

LoadThrow(e) == lpc' = "threw" /\ lerror' = e

\* A mutant of UploadExtent: rounds down to whole blocks.
UploadExtentFloor(extent, blockExtent) == (extent \div blockExtent) * blockExtent

\* const uploadWidth = Math.ceil(lvl.width / blockWidth) * blockWidth;
UploadExtent(extent, blockExtent) == MathCeilDiv(extent, blockExtent) * blockExtent

\* getLevelData(arrayBuffer, level): the decompressed data if there is any, else
\* the level's slice of the file (Null for the RangeError of a slice outside it).
getLevelData(buf, level) ==
    IF level.isDecompressed /\ level.decompressedData # Null
    THEN level.decompressedData
    ELSE IF SliceInRange(buf, level.byteOffset, level.byteLength)
    THEN SubSeq(buf, level.byteOffset + 1, level.byteOffset + level.byteLength)
    ELSE Null

\* One writeTexture call of the block-compressed path, for level i (from 0).
UploadBlockLevel(raw, level, i, fmt) ==
    LET r == padBlockRowsBC(raw, level.width, level.height, fmt.bytesPerBlock,
                            fmt.blockWidth, fmt.blockHeight)
    IN  [mipLevel |-> i, copied |-> r.alloc,
         dataLength |-> IF r.alloc THEN Len(r.bytes) ELSE Len(raw),
         bytesPerRow |-> r.bytesPerRow, rowsPerImage |-> r.rowsPerImage,
         width |-> UploadExtent(level.width, fmt.blockWidth),
         height |-> UploadExtent(level.height, fmt.blockHeight)]

\* One writeTexture call of the RGBA8 paths, for level i (from 0); rowsPerImage is
\* not passed (0 here).
UploadRowsLevel(raw, width, height, i) ==
    LET r == padRows(raw, width, height, 4)
    IN  [mipLevel |-> i, copied |-> r.alloc,
         dataLength |-> IF r.alloc THEN Len(r.bytes) ELSE Len(raw),
         bytesPerRow |-> r.bytesPerRow, rowsPerImage |-> 0,
         width |-> width, height |-> height]

\* The upload loop over the parsed levels; it stops at the first level whose
\* slice is outside the file.
RECURSIVE UploadLevels(_, _, _, _, _)
UploadLevels(buf, lvs, i, fmt, done) ==
    IF i >= Len(lvs) THEN [error |-> "none", uploads |-> done]
    ELSE LET level == lvs[i + 1]
             raw == getLevelData(buf, level)
         IN  IF raw = Null THEN [error |-> "RangeError", uploads |-> done]
             ELSE UploadLevels(buf, lvs, i + 1, fmt,
                    Append(done,
                      IF fmt.blockWidth # 0 /\ fmt.blockHeight # 0 /\ fmt.bytesPerBlock # 0
                      THEN UploadBlockLevel(raw, level, i, fmt)
                      ELSE UploadRowsLevel(raw, level.width, level.height, i)))

\* device.createTexture({size: header.pixelWidth x header.pixelHeight, ...})
CreateTexture(hdr, format, mipLevelCount) ==
    [width |-> hdr.pixelWidth, height |-> hdr.pixelHeight, format |-> format,
     mipLevelCount |-> mipLevelCount]

\* await window.parseKTX2(buf, device) rejected: the load rejects with its error.
LoadParseFailed ==
    /\ lpc = "awaitParse"
    /\ pc = "threw"
    /\ LoadThrow(error)
    /\ UNCHANGED <<decodedMips, levelIndex, wasm, srcTex, uploads, loadFrame>>

\* await window.parseKTX2(buf, device) resolved: the 2D check; then, for BasisLZ,
\* the await of the WASM module; otherwise everything to the end of the load:
\* the format, the texture, the upload of every level.
LoadAfterParse ==
    /\ lpc = "awaitParse"
    /\ pc = "returned"
    /\ LET is2D == header.pixelDepth = U32(0) /\ header.faceCount = U32(1)
           isBasisLZ == header.supercompressionScheme = U32(1)
           formatInfo == vkFormatToWebGPU(header.vkFormat)
           bcSupported == device = "bc"
           up == UploadLevels(arrayBuffer, levels, 0, formatInfo, <<>>)
       IN  IF ~is2D
           THEN LoadThrow("Only 2D, 1-face KTX2 supported.") /\ UNCHANGED <<srcTex, uploads>>
           ELSE IF isBasisLZ
           THEN lpc' = "awaitWasm" /\ UNCHANGED <<lerror, srcTex, uploads>>
           ELSE IF formatInfo = Null
           THEN LoadThrow("Unsupported vkFormat") /\ UNCHANGED <<srcTex, uploads>>
           ELSE IF formatInfo.blockWidth # 0 /\ ~bcSupported
           THEN /\ LoadThrow("BC formats not supported on this device.")
                /\ UNCHANGED <<srcTex, uploads>>
           ELSE /\ srcTex' = CreateTexture(header, formatInfo.format, Len(levels))
                /\ uploads' = up.uploads
                /\ IF up.error # "none" THEN LoadThrow(up.error)
                   ELSE lpc' = "done" /\ lerror' = lerror
    /\ UNCHANGED <<decodedMips, levelIndex, wasm, loadFrame>>

(***************************************************************************)
(* The BasisLZ path of loadKTX2_ToTexture: the WASM ktx2_transcoder.       *)
(***************************************************************************)
WasmCall(op, level, ret) == [op |-> op, level |-> level, ret |-> ret]

\* finally { transcoder.delete(); wasm._free(filePtr); }
WasmFinally(log) == log \o <<WasmCall("delete", 0 - 1, "void"), WasmCall("_free", 0 - 1, "void")>>

\* The sizes get_image_level_info reports for a level.
OrigSizes == {<<0, 1>>, <<64, 2>>}

\* The upload loop over the decoded mips: each goes through padRows at 4 bytes a
\* pixel.
DecodedUploads(mips) ==
    [i \in 1..Len(mips) |->
        UploadRowsLevel([k \in 1..mips[i].dataLength |-> 0], mips[i].width, mips[i].height, i - 1)]

\* What follows the level loop: the count of the decoded mips, the finally
\* block, the texture and the uploads.
AfterWasmLoop(mips, log) ==
    /\ wasm' = [wasm EXCEPT !.log = WasmFinally(log)]
    /\ decodedMips' = mips
    /\ IF Len(mips) = 0
       THEN /\ LoadThrow("WASM decoder did not produce any mip levels")
            /\ UNCHANGED <<srcTex, uploads>>
       ELSE /\ srcTex' = CreateTexture(header, "rgba8unorm", Len(mips))
            /\ uploads' = DecodedUploads(mips)
            /\ lpc' = "done"
            /\ lerror' = lerror

\* await getKtx2Module() settled: the file is copied into the WASM heap, the
\* transcoder is created, initialised and started, and its level count read.
WasmModuleReady ==
    /\ lpc = "awaitWasm"
    /\ \E outcome \in {"noModule", "mallocFail", "initFail", "startFail", "notOneFace", "ok"},
          levelsCount \in 0..MaxLevels :
         LET fileMalloc == <<WasmCall("_malloc", 0 - 1, IF outcome = "mallocFail" THEN "0" ELSE "ptr")>>
         IN  CASE outcome = "noModule" ->
                    /\ LoadThrow("Failed to initialize WASM KTX2 module")
                    /\ UNCHANGED <<decodedMips, levelIndex, wasm, srcTex, uploads>>
               [] outcome = "mallocFail" ->
                    /\ LoadThrow("WASM malloc for KTX2 buffer failed")
                    /\ wasm' = [wasm EXCEPT !.log = fileMalloc]
                    /\ UNCHANGED <<decodedMips, levelIndex, srcTex, uploads>>
               [] outcome = "initFail" ->
                    /\ LoadThrow("ktx2_transcoder.init() failed")
                    /\ wasm' = [wasm EXCEPT !.log = WasmFinally(fileMalloc)]
                    /\ UNCHANGED <<decodedMips, levelIndex, srcTex, uploads>>
               [] outcome = "startFail" ->
                    /\ LoadThrow("ktx2_transcoder.start_transcoding() failed")
                    /\ wasm' = [wasm EXCEPT !.log = WasmFinally(fileMalloc)]
                    /\ UNCHANGED <<decodedMips, levelIndex, srcTex, uploads>>
               [] outcome = "notOneFace" ->
                    /\ LoadThrow("Only 2D, 1-layer, 1-face Basis KTX2 supported")
                    /\ wasm' = [wasm EXCEPT !.log = WasmFinally(fileMalloc)]
                    /\ UNCHANGED <<decodedMips, levelIndex, srcTex, uploads>>
               [] outcome = "ok" ->
                    /\ levelIndex' = 0
                    /\ IF levelsCount = 0
                       THEN AfterWasmLoop(<<>>, fileMalloc)
                       ELSE /\ lpc' = "wasmLevels"
                            /\ wasm' = [levelsCount |-> levelsCount, log |-> fileMalloc]
                            /\ decodedMips' = <<>>
                            /\ UNCHANGED <<lerror, srcTex, uploads>>
    /\ UNCHANGED loadFrame

\* One turn of the level loop: get_image_level_info, _malloc, transcode_image_level
\* and the copy out of the heap.  A level that breaks the loop, or the last
\* level, runs on to the end of the load.
WasmLevel ==
    /\ lpc = "wasmLevels"
    /\ levelIndex < wasm.levelsCount
    /\ \E outcome \in {"noInfo", "mallocFail", "false", "throws", "true"},
          orig \in OrigSizes :
         LET mipW == Max(1, orig[1])
             mipH == Max(1, orig[2])
             outBytes == mipW * mipH * 4
             malloc == WasmCall("_malloc", levelIndex, IF outcome = "mallocFail" THEN "0" ELSE "ptr")
             transcode == WasmCall("transcode_image_level", levelIndex, outcome)
             free == WasmCall("_free", levelIndex, "void")
             pushed == Append(decodedMips, [width |-> mipW, height |-> mipH, dataLength |-> outBytes])
         IN  CASE outcome = "noInfo" ->
                    /\ orig = <<0, 1>>
                    /\ AfterWasmLoop(decodedMips, wasm.log)
                    /\ UNCHANGED levelIndex
               [] outcome = "mallocFail" ->
                    /\ AfterWasmLoop(decodedMips, Append(wasm.log, malloc))
                    /\ UNCHANGED levelIndex
               [] outcome = "false" ->
                    /\ AfterWasmLoop(decodedMips, wasm.log \o <<malloc, transcode, free>>)
                    /\ UNCHANGED levelIndex
               [] outcome = "throws" ->
                    /\ LoadThrow("transcode_image_level threw")
                    /\ wasm' = [wasm EXCEPT !.log = WasmFinally(wasm.log \o <<malloc, transcode>>)]
                    /\ UNCHANGED <<decodedMips, levelIndex, srcTex, uploads>>
               [] outcome = "true" ->
                    /\ levelIndex' = levelIndex + 1
                    /\ IF levelIndex + 1 < wasm.levelsCount
                       THEN /\ decodedMips' = pushed
                            /\ wasm' = [wasm EXCEPT !.log = wasm.log \o <<malloc, transcode, free>>]
                            /\ UNCHANGED <<lpc, lerror, srcTex, uploads>>
                       ELSE AfterWasmLoop(pushed, wasm.log \o <<malloc, transcode, free>>)
    /\ UNCHANGED loadFrame

(***************************************************************************)
(* The lazy initialisers of the external codecs: loadFzstd, loadBasisModule *)
(* (extension.ts), initLibKTX (transcoder.js) and getKtx2Module (main.js),  *)
(* called by parses that interleave at their awaits.                        *)
(***************************************************************************)
MaxParses == 2

Parsers == {1, 2}

Codecs == {"fzstd", "basis", "libktx", "ktx2"}

\* Before any parse: nothing loaded, no promise made.  window.LIBKTX is defined
\* or not, as the page's script tags left it.
\* window.module and window.exports: the values the page had before
\* loadBasisModule ("before"), or the shim { exports: {} } it installs.
WindowBefore == [module |-> "before", exports |-> "before"]

WindowShim == [module |-> "shim", exports |-> "shim.exports"]

InitCodecs ==
    /\ tasks = [c \in Parsers |-> [at |-> "idle", left |-> MaxParses]]
    /\ \E libktx \in BOOLEAN :
          globals = [fzstdLoaded |-> FALSE, fzstd |-> FALSE,
                     basisModulePromise |-> "null",
                     window |-> WindowBefore,
                     LIBKTX |-> libktx, ktxModule |-> FALSE,
                     ktx2ModulePromise |-> "null"]
    /\ initCount = [k \in Codecs |-> 0]

CanCall(c) == tasks[c].at = "idle" /\ tasks[c].left > 0

\* The initialiser call of parser c is over (returned or threw).
Finished(c) == [tasks EXCEPT ![c] = [at |-> "idle", left |-> @.left - 1]]

Awaiting(c, what) == [tasks EXCEPT ![c].at = what]

\* loadFzstd() up to its await: returns at once when fzstdLoaded, else makes a
\* script element and appends it.
CallLoadFzstd ==
    \E c \in Parsers :
        /\ CanCall(c)
        /\ IF globals.fzstdLoaded
           THEN tasks' = Finished(c) /\ initCount' = initCount
           ELSE /\ tasks' = Awaiting(c, "fzstdScript")
                /\ initCount' = [initCount EXCEPT !.fzstd = @ + 1]
        /\ UNCHANGED <<globals, initFrame>>

\* The script of parser c fires onload (the global fzstd then defined, or still
\* undefined) or onerror; fzstdLoaded is set only after a load that defined fzstd.
FzstdScriptSettles ==
    \E c \in Parsers, outcome \in {"onload", "onloadUndefined", "onerror"} :
        /\ tasks[c].at = "fzstdScript"
        /\ outcome = "onloadUndefined" => ~globals.fzstd
        /\ globals' = IF outcome = "onload"
                      THEN [globals EXCEPT !.fzstd = TRUE, !.fzstdLoaded = TRUE]
                      ELSE globals
        /\ tasks' = Finished(c)
        /\ UNCHANGED <<initCount, initFrame>>

\* loadBasisModule() up to its await: returns the promise if there is one, else
\* makes it; the executor runs at once up to await loadScript(...): it backs up
\* window.module and window.exports, installs the shim and appends the script
\* element.
CallLoadBasisModule ==
    \E c \in Parsers :
        /\ CanCall(c)
        /\ IF globals.basisModulePromise # "null"
           THEN UNCHANGED <<globals, initCount>>
           ELSE /\ globals' = [globals EXCEPT !.basisModulePromise = "pending",
                                               !.window = WindowShim]
                /\ initCount' = [initCount EXCEPT !.basis = @ + 1]
        /\ tasks' = Awaiting(c, "basisModulePromise")
        /\ UNCHANGED initFrame

\* The executor after await loadScript(...): the script failed to load (the
\* catch rejects), or it loaded and the backups are put back, after which no
\* export function is found, the WASM fetch or the factory fails, or the module
\* arrives.
RestoreWindow(g, backup) == [g EXCEPT !.window = backup]

\* The promise of loadBasisModule is resolved with the module or rejected.
BasisModuleSettles ==
    /\ globals.basisModulePromise = "pending"
    /\ \E outcome \in {"scriptFails", "noExport", "fetchFails", "fulfilled"} :
          LET settled == [globals EXCEPT !.basisModulePromise =
                              IF outcome = "fulfilled" THEN "fulfilled" ELSE "rejected"]
          IN  globals' = IF outcome = "scriptFails" THEN settled
                         ELSE RestoreWindow(settled, WindowBefore)
    /\ UNCHANGED <<tasks, initCount, initFrame>>

\* await loadBasisModule() continues in parser c once the promise is settled.
BasisAwaitReturns ==
    \E c \in Parsers :
        /\ tasks[c].at = "basisModulePromise"
        /\ globals.basisModulePromise \in {"fulfilled", "rejected"}
        /\ tasks' = Finished(c)
        /\ UNCHANGED <<globals, initCount, initFrame>>

\* initLibKTX() up to its await: returns ktxModule if set, throws if window.LIBKTX
\* is undefined, else invokes the factory window.LIBKTX({...}).
CallInitLibKTX ==
    \E c \in Parsers :
        /\ CanCall(c)
        /\ IF globals.ktxModule \/ ~globals.LIBKTX
           THEN tasks' = Finished(c) /\ initCount' = initCount
           ELSE /\ tasks' = Awaiting(c, "LIBKTX")
                /\ initCount' = [initCount EXCEPT !.libktx = @ + 1]
        /\ UNCHANGED <<globals, initFrame>>

\* The factory call of parser c resolves (ktxModule = mod) or rejects.
LibKTXFactorySettles ==
    \E c \in Parsers, outcome \in {"fulfilled", "rejected"} :
        /\ tasks[c].at = "LIBKTX"
        /\ globals' = IF outcome = "fulfilled" THEN [globals EXCEPT !.ktxModule = TRUE]
                      ELSE globals
        /\ tasks' = Finished(c)
        /\ UNCHANGED <<initCount, initFrame>>

\* getKtx2Module() up to its await: calls CreateKTX2Module() if there is no
\* promise yet, and returns the promise.
CallGetKtx2Module ==
    \E c \in Parsers :
        /\ CanCall(c)
        /\ IF globals.ktx2ModulePromise # "null"
           THEN UNCHANGED <<globals, initCount>>
           ELSE /\ globals' = [globals EXCEPT !.ktx2ModulePromise = "pending"]
                /\ initCount' = [initCount EXCEPT !.ktx2 = @ + 1]
        /\ tasks' = Awaiting(c, "ktx2ModulePromise")
        /\ UNCHANGED initFrame

\* The promise of CreateKTX2Module() is resolved or rejected.
Ktx2ModuleSettles ==
    /\ globals.ktx2ModulePromise = "pending"
    /\ \E outcome \in {"fulfilled", "rejected"} :
          globals' = [globals EXCEPT !.ktx2ModulePromise = outcome]
    /\ UNCHANGED <<tasks, initCount, initFrame>>

\* await getKtx2Module() continues in parser c once the promise is settled.
Ktx2AwaitReturns ==
    \E c \in Parsers :
        /\ tasks[c].at = "ktx2ModulePromise"
        /\ globals.ktx2ModulePromise \in {"fulfilled", "rejected"}
        /\ tasks' = Finished(c)
        /\ UNCHANGED <<globals, initCount, initFrame>>

CodecsNext ==
    \/ CallLoadFzstd
    \/ FzstdScriptSettles
    \/ CallLoadBasisModule
    \/ BasisModuleSettles
    \/ BasisAwaitReturns
    \/ CallInitLibKTX
    \/ LibKTXFactorySettles
    \/ CallGetKtx2Module
    \/ Ktx2ModuleSettles
    \/ Ktx2AwaitReturns

(***************************************************************************)
(* The viewer (main.js): the file input's change handler, the two loads it  *)
(* starts, the mip slider and the 'show only selected mip' box.  A load is  *)
(* suspended at each await; whatever lies between two awaits is one step.   *)
(***************************************************************************)
MaxSelections == 2

\* The mip level counts a loaded file may have.
MipCounts == {1, 2, 3}

FileKinds == {"image", "ktx2", "ktx2basis"}

\* srcTex.createView(): every mip of the texture.
CreateView(tx, tex) ==
    [tex |-> tex, baseMipLevel |-> 0, mipLevelCount |-> tx[tex].mipLevelCount]

\* srcTex.createView({ baseMipLevel: currentMip, mipLevelCount: 1 })
CreateSingleMipView(tex, mip) == [tex |-> tex, baseMipLevel |-> mip, mipLevelCount |-> 1]

\* device.createTexture({..., mipLevelCount}) for the file of selection n.
NewTexture(n, mipLevelCount) == [mipLevelCount |-> mipLevelCount, destroyed |-> FALSE, file |-> n]

\* srcTex?.destroy?.()
Destroy(tx, tex) == [tx EXCEPT ![tex].destroyed = TRUE]

\* After the page's set-up: the 2x2 checker texture of one mip, mipCount = 1,
\* currentMip = 0, and the mip controls as the sidebar markup has them: hidden,
\* the box unchecked, the slider at 0 of 0..0.
ViewerInit ==
    /\ textures = <<NewTexture(0, 1)>>
    /\ viewer = [srcTex |-> 1,
                 srcView |-> CreateView(<<NewTexture(0, 1)>>, 1),
                 texBindGroup |-> CreateView(<<NewTexture(0, 1)>>, 1),
                 mipCount |-> 1, currentMip |-> 0,
                 sliderMax |-> 0, sliderValue |-> 0, mipOnly |-> FALSE,
                 controlsShown |-> FALSE,
                 stat |-> [text |-> "ready", file |-> 0]]
    /\ fileLoads = <<>>
    /\ probe = [singleMip |-> Null, usedDestroyed |-> FALSE, overlapped |-> FALSE]

\* applySelectedMip(): the viewer after it, and what it showed to the probe.
applySelectedMip(v, tx) ==
    LET view == IF v.mipOnly THEN CreateSingleMipView(v.srcTex, v.currentMip)
                ELSE CreateView(tx, v.srcTex)
    IN  [v EXCEPT !.srcView = view, !.texBindGroup = view]

\* The load of selection i has neither returned nor thrown.
Suspended(i) == fileLoads[i].at \notin {"done", "failed"}

\* What the probe keeps of an applySelectedMip call: the last single-mip view
\* made, with the mip level count of the texture it was made on and whether a
\* load was suspended at that moment.
Observe(pr, v, tx) ==
    [pr EXCEPT !.singleMip = IF v.mipOnly
                             THEN [baseMipLevel |-> v.currentMip,
                                   ofLevels |-> tx[v.srcTex].mipLevelCount,
                                   loading |-> \E i \in 1..Len(fileLoads) : Suspended(i)]
                             ELSE @,
               !.usedDestroyed = @ \/ tx[v.srcTex].destroyed]

\* fileInput 'change': stat shows "Loading <file>..." and the load starts, up to
\* its first await.  The probe notes a selection made while a load is suspended.
SelectFile ==
    /\ Len(fileLoads) < MaxSelections
    /\ \E kind \in FileKinds :
          LET n == Len(fileLoads) + 1
          IN  /\ fileLoads' = Append(fileLoads,
                     [file |-> n, kind |-> kind, levels |-> 0, threwAt |-> "none",
                      at |-> IF kind = "image" THEN "createImageBitmap"
                             ELSE "waitForKTXParser"])
              /\ viewer' = [viewer EXCEPT !.stat = [text |-> "Loading", file |-> n]]
    /\ probe' = [probe EXCEPT !.overlapped =
                                  @ \/ \E i \in 1..Len(fileLoads) : Suspended(i)]
    /\ UNCHANGED <<textures, viewFrame>>

\* mipSlider.oninput: currentMip = the slider's value; applySelectedMip().  The
\* slider and the box take input only while the mip controls are displayed.
SliderInput ==
    /\ viewer.controlsShown
    /\ \E value \in 0..viewer.sliderMax :
          LET v == [viewer EXCEPT !.sliderValue = value, !.currentMip = value]
          IN  /\ viewer' = applySelectedMip(v, textures)
              /\ probe' = Observe(probe, v, textures)
    /\ UNCHANGED <<textures, fileLoads, viewFrame>>

\* mipOnlyBox.onchange = applySelectedMip, the box having changed.
ToggleMipOnly ==
    /\ viewer.controlsShown
    /\ LET v == [viewer EXCEPT !.mipOnly = ~@]
       IN  /\ viewer' = applySelectedMip(v, textures)
           /\ probe' = Observe(probe, v, textures)
    /\ UNCHANGED <<textures, fileLoads, viewFrame>>

\* The load of selection i throws at the step it was in (or, replaced, while
\* uploading the levels): the handler's catch sets stat to the error.
Failed(i) == [fileLoads EXCEPT ![i].at = "failed", ![i].threwAt = fileLoads[i].at]

FailedInUpload(i) == [fileLoads EXCEPT ![i].at = "failed", ![i].threwAt = "upload"]

ErrorShown(v, i) == [v EXCEPT !.stat = [text |-> "Error", file |-> fileLoads[i].file]]

At(i, where) == i \in 1..Len(fileLoads) /\ fileLoads[i].at = where

\* await createImageBitmap(file) rejects, or resolves: then the old texture is
\* destroyed, the new one created with floor(log2(maxDim)) + 1 levels, srcView
\* set, and the load waits for createMipImages.
ImageBitmapSettles ==
    \E i \in 1..MaxSelections :
        /\ At(i, "createImageBitmap")
        /\ \/ /\ fileLoads' = Failed(i)
              /\ viewer' = ErrorShown(viewer, i)
              /\ UNCHANGED textures
           \/ \E nLevels \in MipCounts :
                LET tx == Append(Destroy(textures, viewer.srcTex),
                                 NewTexture(fileLoads[i].file, nLevels))
                IN  /\ textures' = tx
                    /\ viewer' = [viewer EXCEPT !.srcTex = Len(tx),
                                                !.srcView = CreateView(tx, Len(tx))]
                    /\ fileLoads' = [fileLoads EXCEPT ![i].at = "createMipImages",
                                                      ![i].levels = nLevels]
        /\ UNCHANGED <<probe, viewFrame>>

\* await createMipImages(bitmap) throws, or resolves: then every mip is written to
\* srcTex, mipCount and the slider are set, currentMip = 0, and the view and bind
\* group are made anew.
MipImagesSettle ==
    \E i \in 1..MaxSelections :
        /\ At(i, "createMipImages")
        /\ \/ /\ fileLoads' = Failed(i)
              /\ viewer' = ErrorShown(viewer, i)
              /\ UNCHANGED probe
           \/ LET nLevels == fileLoads[i].levels
                  view == CreateView(textures, viewer.srcTex)
              IN  /\ viewer' = [viewer EXCEPT !.mipCount = nLevels, !.currentMip = 0,
                                              !.sliderMax = Max(0, nLevels - 1),
                                              !.sliderValue = 0,
                                              !.controlsShown = nLevels > 1,
                                              !.srcView = view, !.texBindGroup = view]
                  /\ probe' = [probe EXCEPT !.usedDestroyed =
                                                @ \/ textures[viewer.srcTex].destroyed]
                  /\ fileLoads' = [fileLoads EXCEPT ![i].at = "done"]
        /\ UNCHANGED <<textures, viewFrame>>

\* await waitForKTXParser(): window.parseKTX2 is there, or the wait times out.
KtxParserReady ==
    \E i \in 1..MaxSelections :
        /\ At(i, "waitForKTXParser")
        /\ \/ fileLoads' = Failed(i) /\ viewer' = ErrorShown(viewer, i)
           \/ fileLoads' = [fileLoads EXCEPT ![i].at = "arrayBuffer"] /\ viewer' = viewer
        /\ UNCHANGED <<textures, probe, viewFrame>>

\* await file.arrayBuffer(), and parseKTX2 called up to its first await.
ArrayBufferSettles ==
    \E i \in 1..MaxSelections :
        /\ At(i, "arrayBuffer")
        /\ \/ fileLoads' = Failed(i) /\ viewer' = ErrorShown(viewer, i)
           \/ fileLoads' = [fileLoads EXCEPT ![i].at = "parseKTX2"] /\ viewer' = viewer
        /\ UNCHANGED <<textures, probe, viewFrame>>

\* The end of loadKTX2_ToTexture, from 'CREATE GPU TEXTURE' on, with the local
\* mipCount: the old texture is destroyed, the new one created, srcView and the
\* bind group set, the levels written (uploadThrows: getLevelData throws for a
\* level outside the file), then the slider set and stat set to "Loaded".  The
\* viewer's own mipCount and currentMip are not assigned.
InstallKTX2(i, mipCount, uploadThrows) ==
    LET tx == Append(Destroy(textures, viewer.srcTex), NewTexture(fileLoads[i].file, mipCount))
        view == CreateView(tx, Len(tx))
        installed == [viewer EXCEPT !.srcTex = Len(tx), !.srcView = view,
                                    !.texBindGroup = view]
    IN  /\ textures' = tx
        /\ IF uploadThrows
           THEN /\ fileLoads' = FailedInUpload(i)
                /\ viewer' = ErrorShown(installed, i)
           ELSE /\ fileLoads' = [fileLoads EXCEPT ![i].at = "done", ![i].levels = mipCount]
                /\ viewer' = [installed EXCEPT !.sliderMax = Max(0, mipCount - 1),
                                               !.sliderValue = 0,
                                               !.controlsShown = mipCount > 1,
                                               !.stat = [text |-> "Loaded",
                                                         file |-> fileLoads[i].file]]

\* await window.parseKTX2(buf, device) rejects, or resolves: then the 2D check
\* and, without supercompression, the format lookup may throw; a BasisLZ file
\* goes on to await getKtx2Module(); any other goes on to the end of the load.
ParseKTX2Settles ==
    \E i \in 1..MaxSelections :
        /\ At(i, "parseKTX2")
        /\ \/ /\ fileLoads' = Failed(i)
              /\ viewer' = ErrorShown(viewer, i)
              /\ UNCHANGED textures
           \/ /\ fileLoads[i].kind = "ktx2basis"
              /\ fileLoads' = [fileLoads EXCEPT ![i].at = "getKtx2Module"]
              /\ UNCHANGED <<viewer, textures>>
           \/ /\ fileLoads[i].kind = "ktx2"
              /\ \E mipCount \in MipCounts, uploadThrows \in BOOLEAN :
                    InstallKTX2(i, mipCount, uploadThrows)
        /\ UNCHANGED <<probe, viewFrame>>

\* await getKtx2Module() rejects or the transcoder fails, or the mips are decoded,
\* and the load goes on to its end.
WasmDecoded ==
    \E i \in 1..MaxSelections :
        /\ At(i, "getKtx2Module")
        /\ \/ /\ fileLoads' = Failed(i)
              /\ viewer' = ErrorShown(viewer, i)
              /\ UNCHANGED textures
           \/ \E mipCount \in MipCounts : InstallKTX2(i, mipCount, FALSE)
        /\ UNCHANGED <<probe, viewFrame>>

ViewerNext ==
    \/ SelectFile
    \/ SliderInput
    \/ ToggleMipOnly
    \/ ImageBitmapSettles
    \/ MipImagesSettle
    \/ KtxParserReady
    \/ ArrayBufferSettles
    \/ ParseKTX2Settles
    \/ WasmDecoded

(***************************************************************************)
(* transcodeFullKTX2 (read.js): a libktx texture is made from the file,    *)
(* transcoded if need be, and its mips are copied out; the finally block   *)
(* deletes the texture.                                                    *)
(***************************************************************************)
\* The level counts texture.numLevels may have (0: the property is missing).
NumLevels == {0, 1, 2}

\* The textures new m.ktxTexture2(data) may give: needsTranscoding is a method
\* or is absent, and what the method would report when called; vkFormat is 0
\* for a Basis payload; getImage is there or not; transcodeBasis succeeds or not.
KtxTextures ==
    [needsTranscoding : {"function", "undefined"}, reports : BOOLEAN,
     vkFormat : {0, 145}, numLevels : NumLevels, getImage : BOOLEAN,
     transcodeBasis : BOOLEAN]

\* let shouldTranscode = false;
\* if (texture.needsTranscoding && typeof texture.needsTranscoding === 'function')
\*   shouldTranscode = texture.needsTranscoding;       (the method, not its result)
\* else if (texture.vkFormat === 0) shouldTranscode = true;
ShouldTranscode(texture) ==
    IF texture.needsTranscoding = "function" THEN texture.needsTranscoding
    ELSE IF texture.vkFormat = 0 THEN "true" ELSE "false"

\* if (shouldTranscode): a function is truthy.
Truthy(v) == v \notin {"false", "undefined"}

\* finally { if (texture && texture.delete) texture.delete(); }
FullFinally(log, constructed) ==
    IF constructed THEN Append(log, [op |-> "delete", level |-> 0 - 1]) ELSE log

\* Before the call: the texture the file will give, and whether the constructor
\* throws.
FullInit ==
    \E texture \in KtxTextures, ctorThrows \in BOOLEAN :
        fullRun = [texture |-> texture, ctorThrows |-> ctorThrows,
                     at |-> "initLibKTX", i |-> 0, mips |-> 0, log |-> <<>>]

\* await initLibKTX() rejects, or resolves: then the texture is constructed,
\* the need for transcoding decided, transcodeBasis called if so, and the level
\* loop entered.
FullLibKTXSettles ==
    /\ fullRun.at = "initLibKTX"
    /\ \E resolved \in BOOLEAN :
          LET texture == fullRun.texture
              made == <<[op |-> "new ktxTexture2", level |-> 0 - 1]>>
              shouldTranscode == ShouldTranscode(texture)
              transcoded == IF Truthy(shouldTranscode)
                            THEN Append(made, [op |-> "transcodeBasis", level |-> 0 - 1])
                            ELSE made
          IN  IF ~resolved
              THEN fullRun' = [fullRun EXCEPT !.at = "threw"]
              ELSE IF fullRun.ctorThrows
              THEN fullRun' = [fullRun EXCEPT !.at = "threw",
                                              !.log = FullFinally(<<>>, FALSE)]
              ELSE IF Truthy(shouldTranscode) /\ ~texture.transcodeBasis
              THEN fullRun' = [fullRun EXCEPT !.at = "threw",
                                              !.log = FullFinally(transcoded, TRUE)]
              ELSE fullRun' = [fullRun EXCEPT !.at = "getImage", !.log = transcoded]
    /\ UNCHANGED fullFrame

\* One pass of the loop over the levels (numLevels || 1 of them): getImage is
\* missing and the pass throws, or the image is fetched and copied; after the
\* last pass the mips are returned.  Either way the finally block follows.
FullGetImage ==
    /\ fullRun.at = "getImage"
    /\ LET texture == fullRun.texture
           numLevels == IF texture.numLevels = 0 THEN 1 ELSE texture.numLevels
           copied == fullRun.log \o <<[op |-> "getImage", level |-> fullRun.i],
                                      [op |-> "copy", level |-> fullRun.i]>>
       IN  IF ~texture.getImage
           THEN fullRun' = [fullRun EXCEPT !.at = "threw",
                                           !.log = FullFinally(fullRun.log, TRUE)]
           ELSE IF fullRun.i + 1 < numLevels
           THEN fullRun' = [fullRun EXCEPT !.i = @ + 1, !.mips = @ + 1, !.log = copied]
           ELSE fullRun' = [fullRun EXCEPT !.i = @ + 1, !.mips = @ + 1,
                                           !.at = "returned",
                                           !.log = FullFinally(copied, TRUE)]
    /\ UNCHANGED fullFrame

FullNext ==
    \/ FullLibKTXSettles
    \/ FullGetImage

(***************************************************************************)
(* The specifications.  Each runs one part of the program; the state of    *)
(* the parts it does not run stays idle.                                   *)
(***************************************************************************)
PadIdle == padIn = Null /\ heap = <<>> /\ rowsRet = Null /\ bcRet = Null

LoadIdle ==
    /\ lpc = "idle" /\ lerror = "none" /\ decodedMips = Null /\ levelIndex = 0
    /\ wasm = NoWasm /\ srcTex = Null /\ uploads = <<>>

ParseIdle ==
    /\ variant = "none" /\ built = Null /\ arrayBuffer = <<>> /\ device = "undefined"
    /\ pc = "idle" /\ header = Null /\ index = Null /\ levels = <<>>
    /\ dfd = Null /\ kvd = Null /\ error = "none" /\ lvl = 0 /\ calls = <<>>
    /\ fzstdLoaded = FALSE /\ basis = NoBasis

CodecsIdle == tasks = <<>> /\ globals = Null /\ initCount = <<>>

ViewerIdle == viewer = Null /\ textures = <<>> /\ fileLoads = <<>> /\ probe = Null

FullIdle == fullRun = Null

\* padRows and padBlockRowsBC applied to every input of the planner.
InitPad == PadInit /\ ParseIdle /\ LoadIdle /\ CodecsIdle /\ ViewerIdle /\ FullIdle
SpecPad == InitPad /\ [][PadNext]_vars

\* parseKTX2 on every input file.
InitParse == ParseInit /\ PadIdle /\ LoadIdle /\ CodecsIdle /\ ViewerIdle /\ FullIdle
SpecParse == InitParse /\ [][ParseNext]_vars

\* The viewer loading a KTX2 file: parseKTX2 and then the rest of
\* loadKTX2_ToTexture.
LoadInputs ==
    {b \in Inputs :
        b.header.supercompressionScheme = U32(SUPERCOMPRESSION_BASIS_LZ)
            => b.header.levelCount = U32(1) /\ b.header.pixelWidth = U32(10)}
InitLoad ==
    ParseInitFrom(LoadInputs) /\ LoadInit /\ PadIdle /\ CodecsIdle /\ ViewerIdle /\ FullIdle
NextLoad ==
    \/ ParseKTX2Head
    \/ LoadFzstd
    \/ ZstdLevel
    \/ LoadBasisModule
    \/ BasisOpen
    \/ BasisTranscodeLevel
    \/ LoadParseFailed
    \/ LoadAfterParse
    \/ WasmModuleReady
    \/ WasmLevel
SpecLoad == InitLoad /\ [][NextLoad]_vars

\* Parsers calling the initialisers of the external codecs, interleaved.
InitInit == InitCodecs /\ PadIdle /\ ParseIdle /\ LoadIdle /\ ViewerIdle /\ FullIdle
SpecInit == InitInit /\ [][CodecsNext]_vars

\* The viewer: files selected, loads interleaved at their awaits, slider and box.
InitViewer == ViewerInit /\ PadIdle /\ ParseIdle /\ LoadIdle /\ CodecsIdle /\ FullIdle
SpecViewer == InitViewer /\ [][ViewerNext]_vars

\* transcodeFullKTX2 called on every texture of KtxTextures.
InitFull == FullInit /\ PadIdle /\ ParseIdle /\ LoadIdle /\ CodecsIdle /\ ViewerIdle
SpecFull == InitFull /\ [][FullNext]_vars

(***************************************************************************)
(* Claims about the upload layout planner, checked under SpecPad.          *)
(***************************************************************************)
\* ceil(a / b) stated from its meaning: the least n with n * b >= a.
CeilOf(a, b) == CHOOSE n \in 0..a : n * b >= a /\ (n = 0 \/ (n - 1) * b < a)

\* m is the smallest multiple of 256 that is >= tight.
SmallestAligned(m, tight) == m % 256 = 0 /\ m >= tight /\ m - 256 < tight

TightRows == padIn.width * padIn.bytesPer
TightBlocksAsClaimed == CeilOf(padIn.width, padIn.blockWidth) * padIn.bytesPer
TightBlocks == Max(1, CeilOf(padIn.width, padIn.blockWidth)) * padIn.bytesPer

\* C2 as stated: bytesPerRow is the smallest multiple of 256 >= the tight stride,
\* the tight stride of padBlockRowsBC being ceil(width/blockWidth)*bytesPerBlock,
\* for every width >= 0.
C2_AsClaimed ==
    /\ rowsRet # Null => SmallestAligned(rowsRet.bytesPerRow, TightRows)
    /\ bcRet # Null => SmallestAligned(bcRet.bytesPerRow, TightBlocksAsClaimed)

\* C2 amended: bytesPerRow is a multiple of 256 and the smallest one >= the tight
\* stride, which is width*bytesPerPixel for padRows and, for padBlockRowsBC,
\* max(1, ceil(width/blockWidth))*bytesPerBlock (a row holds at least one block).
C2_SmallestAlignedStride ==
    /\ rowsRet # Null => SmallestAligned(rowsRet.bytesPerRow, TightRows)
    /\ bcRet # Null => SmallestAligned(bcRet.bytesPerRow, TightBlocks)

\* Both planners have been called at width 0 with 16 bytes a texel or block:
\* padRows gave stride 0, padBlockRowsBC the stride of one block, aligned.
C2_Witness ==
    /\ rowsRet # Null /\ bcRet # Null
    /\ padIn.width = 0 /\ padIn.bytesPer = 16
    /\ rowsRet.bytesPerRow = 0
    /\ bcRet.bytesPerRow = 256

IdentifierBytes == <<171, 75, 84, 88, 32, 50, 48, 187, 13, 10, 26, 10>>

AlteredIdentifier ==
    /\ Len(arrayBuffer) >= 12
    /\ \E i \in 1..12 : arrayBuffer[i] # IdentifierBytes[i]

\* C1: a buffer with one of its first 12 bytes other than the identifier's makes
\* parseKTX2 throw the invalid-identifier error (once it has run), with no header
\* and no levels read and no decompressor or transcoder called.
C1_AlteredIdentifierRejected ==
    AlteredIdentifier =>
        /\ pc \in {"start", "threw"}
        /\ pc = "threw" => error = "Invalid KTX2 identifier"
        /\ header = Null /\ levels = <<>> /\ calls = <<>>

\* A Zstd file with its last identifier byte altered has been rejected.
C1_Witness ==
    /\ AlteredIdentifier
    /\ built.corruptAt = 12
    /\ built.header.supercompressionScheme = U32(2)
    /\ pc = "threw"

\* floor(p / 2^i) of a uint32 p, equal to an integer n.
UnsignedShiftIs(p, i, n) ==
    IF i = 0 THEN p[1] < 32768 /\ n = p[1] * 65536 + p[2]
    ELSE IF i >= 32 THEN n = 0
    ELSE n = (p[1] * 32768 + (p[2] \div 2)) \div Pow2(i - 1)

MipLawHolds(p, i, n) ==
    \/ n = 1 /\ (UnsignedShiftIs(p, i, 0) \/ UnsignedShiftIs(p, i, 1))
    \/ n > 1 /\ UnsignedShiftIs(p, i, n)

\* C4: every returned level i has width max(1, floor(pixelWidth / 2^i)) and height
\* max(1, floor(pixelHeight / 2^i)), whatever the uint32 sizes and the index.
C4_MipDimensionLaw ==
    header # Null =>
        \A i \in 1..Len(levels) :
            /\ MipLawHolds(header.pixelWidth, i - 1, levels[i].width)
            /\ MipLawHolds(header.pixelHeight, i - 1, levels[i].height)

\* A file as the builder writes it: nothing altered or cut, as many level entries
\* as the header declares.
BuilderWroteWhole(b) ==
    /\ b.corruptAt = 0 /\ b.cut < 0
    /\ Len(b.levelBytes) = Max(1, Nat32(b.header.levelCount))

\* C5: what parseKTX2 returns of a file the builder wrote: the nine header
\* fields, the six index fields and each level's byteOffset, byteLength and
\* uncompressedByteLength are the values written.
C5_RoundTrip ==
    (header # Null /\ BuilderWroteWhole(built)) =>
        /\ \A k \in 1..9 : header[HeaderFields[k]] = built.header[HeaderFields[k]]
        /\ LET ix == BuilderIndex(built)
           IN  /\ index.dfdByteOffset = ix.dfdByteOffset
               /\ index.dfdByteLength = ix.dfdByteLength
               /\ index.kvdByteOffset = ix.kvdByteOffset
               /\ index.kvdByteLength = ix.kvdByteLength
               /\ index.sgdByteOffset = ix.sgdByteOffset
               /\ index.sgdByteLength = ix.sgdByteLength
        /\ LET lv == BuilderLevels(built)
           IN  /\ Len(levels) = Len(lv)
               /\ \A i \in 1..Len(lv) :
                    /\ levels[i].byteOffset = lv[i].byteOffset
                    /\ levels[i].byteLength = lv[i].byteLength
                    /\ levels[i].uncompressedByteLength = lv[i].uncompressedByteLength

\* The file createBC6H_KTX2(10, 10) writes has been parsed and returned.
C5_Witness ==
    /\ arrayBuffer = createBC6H_KTX2(10, 10)
    /\ pc = "returned"
    /\ header.vkFormat = U32(143)
    /\ Len(levels) = 1 /\ levels[1].byteOffset > 80 /\ levels[1].byteLength = 144

UnsupportedSchemeErrors ==
    {"BasisLZ supercompression not yet supported", "Zlib supercompression not yet supported",
     "Unknown supercompression scheme"}

\* C6: of a well-formed file, parseKTX2 throws an unsupported-scheme error exactly
\* when the scheme is outside {0, 1, 2}, and then nothing was decompressed or
\* transcoded.
C6_UnsupportedSchemeIffOutside ==
    (pc # "start" /\ built.corruptAt = 0) =>
        /\ (pc = "threw" /\ error \in UnsupportedSchemeErrors)
              <=> built.header.supercompressionScheme \notin {U32(0), U32(1), U32(2)}
        /\ (pc = "threw" /\ error \in UnsupportedSchemeErrors) => calls = <<>>

DecompressCalls == {j \in 1..Len(calls) : calls[j].op = "fzstdDecompress"}

\* C7: under Zstd, a decompressor result of any length is stored as the level's
\* payload and the loop goes on: parseKTX2 throws only when the decompressor threw
\* or the level's range is outside the file, and returns after the last level.
C7_LengthMismatchNotFatal ==
    pc \in {"zstdLevels", "returned", "threw"} /\ header # Null
      /\ header.supercompressionScheme = U32(2) =>
        /\ \A j \in DecompressCalls :
              ~calls[j].threw =>
                  /\ calls[j].level < lvl
                  /\ levels[calls[j].level + 1].isDecompressed
                  /\ Len(levels[calls[j].level + 1].decompressedData) = calls[j].ret
        /\ (pc = "threw" /\ DecompressCalls # {}) =>
              \/ calls[Len(calls)].threw
              \/ error = "RangeError"
        /\ pc = "zstdLevels" => lvl < Len(levels)
        /\ pc = "returned" => lvl = Len(levels)

\* A two-level Zstd file whose first level came back with another length than
\* declared has been returned.
C7_Witness ==
    /\ pc = "returned"
    /\ header.supercompressionScheme = U32(2)
    /\ Len(levels) >= 2
    /\ \E j \in DecompressCalls :
          /\ calls[j].level = 0
          /\ ~calls[j].threw
          /\ calls[j].ret # levels[1].uncompressedByteLength
          /\ Len(levels[1].decompressedData) = calls[j].ret

LevelQueries == {j \in 1..Len(calls) : calls[j].op \in {"getLevels", "getNumLevels"}}
TranscodeCalls == {j \in 1..Len(calls) : calls[j].op = "transcodeImage"}
Resolved == {i \in 1..Len(levels) : levels[i].isDecompressed}

BasisErrors ==
    {"Basis module failed to load", "Transcoder failed to initialize.", "File has no images",
     "TypeError"}

\* C8: under BasisLZ (extension.ts), when parseKTX2 has returned and no level's
\* transcode failed, the levels with a transcoded payload number min(declared,
\* transcoder-reported); and parseKTX2 never throws once the transcoder has been
\* asked for its level count.
C8_ResolvedIsMinOfCounts ==
    (header # Null /\ header.supercompressionScheme = U32(1) /\ variant = "extension.ts") =>
        /\ pc = "threw" => error \in BasisErrors /\ LevelQueries = {}
        /\ (pc = "returned" /\ \A j \in TranscodeCalls : calls[j].ret = "true") =>
              \A q \in LevelQueries :
                  ~calls[q].threw =>
                      Cardinality(Resolved) = Min(Len(levels), calls[q].ret)

\* Three levels declared, two reported, both transcoded, parseKTX2 returned.
C8_Witness ==
    /\ pc = "returned"
    /\ header # Null /\ header.supercompressionScheme = U32(1)
    /\ Len(levels) = 3
    /\ \E q \in LevelQueries : ~calls[q].threw /\ calls[q].ret = 2
    /\ Cardinality(TranscodeCalls) = 2
    /\ \A j \in TranscodeCalls : calls[j].ret = "true"
    /\ Resolved = {1, 2}

(***************************************************************************)
(* Claims about the load of a KTX2 file (SpecLoad).                        *)
(***************************************************************************)
FailedTranscodes ==
    {j \in TranscodeCalls : calls[j].ret \in {"false", "throws"}}

WasmTranscodes == {j \in 1..Len(wasm.log) : wasm.log[j].op = "transcode_image_level"}

FailedWasmTranscodes ==
    {j \in WasmTranscodes : wasm.log[j].ret \in {"false", "throws"}}

\* C9: under BasisLZ, once the transcode of level k has failed (false or thrown),
\* in parseKTX2 and in the loader's WASM loop alike: no level above k is
\* attempted, the levels below k keep their payloads, and the parse or load does
\* not fail; and the resolved levels are always a prefix of the level sequence.
C9_FailedLevelKeepsEarlier ==
    /\ \A j \in FailedTranscodes :
          /\ pc # "threw"
          /\ \A m \in TranscodeCalls : calls[m].level <= calls[j].level
          /\ Resolved = 1..calls[j].level
    /\ (header # Null /\ header.supercompressionScheme = U32(1))
          => Resolved = 1..Cardinality(Resolved)
    /\ \A j \in FailedWasmTranscodes :
          /\ lpc # "threw"
          /\ \A m \in WasmTranscodes : wasm.log[m].level <= wasm.log[j].level
          /\ Len(decodedMips) = wasm.log[j].level

\* The loader's loop as the claim has it when the call throws at a level past
\* the first: the load does not fail.
C9_ThrowAtLaterLevelKeepsLoad ==
    \A j \in FailedWasmTranscodes :
        (wasm.log[j].ret = "throws" /\ wasm.log[j].level >= 1) => lpc # "threw"

\* The uploads of the block-compressed path, when the load is done.
BlockUploads ==
    IF lpc = "done" /\ header.supercompressionScheme # U32(1) THEN DOMAIN uploads ELSE {}

SingleLevel10x10Format145 ==
    /\ BuilderWroteWhole(built)
    /\ built.header.pixelWidth = U32(10) /\ built.header.pixelHeight = U32(10)
    /\ built.header.vkFormat = U32(145)
    /\ built.header.levelCount = U32(1)
    /\ built.header.supercompressionScheme = U32(0)

\* C10: a block-compressed level of w x h (4x4 blocks of 16 bytes) is uploaded
\* with extent (ceil(w/4)*4, ceil(h/4)*4), ceil(w/4) blocks a row and rowsPerImage
\* ceil(h/4); 5x5 gives 8x8 and 1x1 gives 4x4; and the single-level 10x10 file of
\* format 145 gives one level of 10x10, extent 12x12, 3 blocks a row, bytesPerRow
\* 256.
C10_BlockUploadExtent ==
    /\ \A u \in BlockUploads :
          LET w == levels[u].width
              h == levels[u].height
          IN  /\ uploads[u].mipLevel = u - 1
              /\ uploads[u].width = CeilOf(w, 4) * 4
              /\ uploads[u].height = CeilOf(h, 4) * 4
              /\ BlockCount(w, 4) = CeilOf(w, 4)
              /\ uploads[u].rowsPerImage = CeilOf(h, 4)
              /\ SmallestAligned(uploads[u].bytesPerRow, CeilOf(w, 4) * 16)
              /\ (w = 5 /\ h = 5) => (uploads[u].width = 8 /\ uploads[u].height = 8)
              /\ (w = 1 /\ h = 1) => (uploads[u].width = 4 /\ uploads[u].height = 4)
    /\ (SingleLevel10x10Format145 /\ lpc = "done") =>
          /\ Len(levels) = 1 /\ levels[1].width = 10 /\ levels[1].height = 10
          /\ Len(uploads) = 1
          /\ uploads[1].width = 12 /\ uploads[1].height = 12
          /\ BlockCount(levels[1].width, 4) = 3
          /\ uploads[1].rowsPerImage = 3
          /\ uploads[1].bytesPerRow = 256

\* The three-level 10x10 file has been loaded: levels of 10x10, 5x5 and 2x2 went
\* up with extents 12x12, 8x8 and 4x4.
C10_Witness ==
    /\ lpc = "done" /\ header.supercompressionScheme = U32(0)
    /\ Len(uploads) = 3
    /\ levels[1].width = 10 /\ uploads[1].width = 12 /\ uploads[1].bytesPerRow = 256
    /\ levels[2].width = 5 /\ levels[2].height = 5
    /\ uploads[2].width = 8 /\ uploads[2].height = 8
    /\ uploads[3].width = 4

(***************************************************************************)
(* Claims about short and inconsistent files (SpecParse).                  *)
(***************************************************************************)
\* C11: a buffer shorter than 80 bytes makes parseKTX2 throw the 'too small to
\* contain header' error and no other error.
C11_ShortBufferTooSmallError ==
    (Len(arrayBuffer) < 80 /\ pc # "start") =>
        /\ pc = "threw"
        /\ error = "KTX2 too small to contain header."
        /\ header = Null /\ levels = <<>>

(***************************************************************************)
(* Claims about the format table (SpecLoad).                               *)
(***************************************************************************)
\* C12: for the format of every parsed header, the descriptor the loader looks up
\* (vkFormatToWebGPU of transcoder.js) is the one read.js's table gives: 8 bytes a
\* block for 131, 132, 139, 140, 16 for the other BC formats, null outside them.
C12_LoaderTableIsReferenceTable ==
    header # Null =>
        vkFormatToWebGPU(header.vkFormat) = readVkFormatToWebGPU(header.vkFormat)

(***************************************************************************)
(* More claims about the upload layout planner (SpecPad).                  *)
(***************************************************************************)
SrcBytes == [k \in 1..SrcLen(padIn) |-> SrcByte(k)]

CallsMade == (IF rowsRet # Null THEN 1 ELSE 0) + (IF bcRet # Null THEN 1 ELSE 0)

\* C13: after any calls of padRows and padBlockRowsBC the input buffer holds the
\* bytes it held before, and at most one buffer was made per call.
C13_InputUntouchedOneAllocation ==
    /\ heap[SrcRef] = SrcBytes
    /\ Len(heap) <= 1 + CallsMade

\* Both planners have padded a two-row source (two new buffers exist) and the
\* source is as it was.
C13_Witness ==
    /\ padIn.width = 65 /\ padIn.height = 2 /\ padIn.bytesPer = 4
    /\ rowsRet # Null /\ bcRet # Null
    /\ Len(heap) = 3
    /\ rowsRet.data = 2 /\ bcRet.data = 3
    /\ heap[SrcRef] = SrcBytes

\* out is rows rows of aligned bytes: row y begins with the tight bytes of row y
\* of src and is 0 from there on.
PaddedCopyOf(out, src, rows, tight, aligned) ==
    /\ Len(out) = aligned * rows
    /\ \A y \in 0..(rows - 1) :
          \A k \in 0..(aligned - 1) :
              out[y * aligned + k + 1] = IF k < tight THEN src[y * tight + k + 1] ELSE 0

\* C19 as stated: when the tight stride is not a multiple of 256 the result is a
\* new buffer of alignedStride * rows bytes, rows being height for padRows and
\* ceil(height/blockHeight) for padBlockRowsBC, each row the tight row of src
\* followed by zeros.
C19_AsClaimed ==
    /\ (rowsRet # Null /\ TightRows % 256 # 0) =>
          /\ rowsRet.data # SrcRef
          /\ PaddedCopyOf(heap[rowsRet.data], heap[SrcRef], padIn.height, TightRows,
                          rowsRet.bytesPerRow)
    /\ (bcRet # Null /\ TightBlocksAsClaimed % 256 # 0) =>
          /\ bcRet.data # SrcRef
          /\ PaddedCopyOf(heap[bcRet.data], heap[SrcRef],
                          CeilOf(padIn.height, padIn.blockHeight), TightBlocksAsClaimed,
                          bcRet.bytesPerRow)

\* C19 amended: the same, the rows of padBlockRowsBC being
\* max(1, ceil(height/blockHeight)) and its tight stride
\* max(1, ceil(width/blockWidth)) * bytesPerBlock.
C19_PaddedRowsCopied ==
    /\ (rowsRet # Null /\ TightRows % 256 # 0) =>
          /\ rowsRet.data # SrcRef
          /\ PaddedCopyOf(heap[rowsRet.data], heap[SrcRef], padIn.height, TightRows,
                          rowsRet.bytesPerRow)
    /\ (bcRet # Null /\ TightBlocks % 256 # 0) =>
          /\ bcRet.data # SrcRef
          /\ PaddedCopyOf(heap[bcRet.data], heap[SrcRef],
                          Max(1, CeilOf(padIn.height, padIn.blockHeight)), TightBlocks,
                          bcRet.bytesPerRow)

\* Both planners have padded two rows: 65 texels of 4 bytes (stride 260 to 512)
\* and 65 one-texel blocks of 4 bytes.
C19_Witness ==
    /\ padIn.width = 65 /\ padIn.height = 2 /\ padIn.bytesPer = 4
    /\ padIn.blockWidth = 1 /\ padIn.blockHeight = 1
    /\ rowsRet # Null /\ bcRet # Null
    /\ rowsRet.bytesPerRow = 512 /\ Len(heap[rowsRet.data]) = 1024
    /\ heap[rowsRet.data][513] = heap[SrcRef][261]
    /\ heap[rowsRet.data][261] = 0
    /\ Len(heap[bcRet.data]) = 1024

(***************************************************************************)
(* More claims about parseKTX2 (SpecParse).                                *)
(***************************************************************************)
\* The little-endian uint64 at byte offset off of buf, byte by byte; Huge stands
\* for every value from 2^31 - 1 up.
LittleEndian64(buf, off) ==
    IF (\E k \in 4..7 : buf[off + k + 1] # 0) \/ buf[off + 4] >= 128
    THEN Huge
    ELSE buf[off + 1] + 256 * buf[off + 2] + 65536 * buf[off + 3] + 16777216 * buf[off + 4]

\* C14: a parse that got past the index holds max(1, header.levelCount) level
\* entries, entry i (from 0) being the three little-endian uint64 values at
\* 80 + 24*i, 88 + 24*i and 96 + 24*i, in level order.
C14_LevelEntriesFromIndex ==
    header # Null =>
        /\ Len(levels) = Max(1, Nat32(header.levelCount))
        /\ \A i \in 0..(Len(levels) - 1) :
              /\ levels[i + 1].byteOffset = LittleEndian64(arrayBuffer, 80 + 24 * i)
              /\ levels[i + 1].byteLength = LittleEndian64(arrayBuffer, 88 + 24 * i)
              /\ levels[i + 1].uncompressedByteLength = LittleEndian64(arrayBuffer, 96 + 24 * i)

\* A container declaring levelCount 0 was returned with one level entry, read
\* from bytes 80..103.
C14_Witness ==
    /\ pc = "returned"
    /\ header # Null /\ header.levelCount = U32(0)
    /\ Len(levels) = 1
    /\ levels[1].byteOffset > 0 /\ levels[1].byteLength > 0
    /\ levels[1].byteOffset = LittleEndian64(arrayBuffer, 80)

\* offset + length <= total, without forming the sum.
WithinFile(offset, length, total) == offset <= total /\ length <= total - offset

\* C15: a returned container has each of its three index pairs (DFD, KVD, SGD)
\* within the file: offset + length <= file length.
C15_IndexPairsWithinFile ==
    pc = "returned" =>
        /\ WithinFile(Nat32(index.dfdByteOffset), Nat32(index.dfdByteLength), Len(arrayBuffer))
        /\ WithinFile(Nat32(index.kvdByteOffset), Nat32(index.kvdByteLength), Len(arrayBuffer))
        /\ WithinFile(index.sgdByteOffset, index.sgdByteLength, Len(arrayBuffer))

(***************************************************************************)
(* More claims about loadKTX2_ToTexture (SpecLoad).                        *)
(***************************************************************************)
\* The loader has got past its 2D, 1-face check.
AcceptedByLoader ==
    /\ pc = "returned"
    /\ lpc # "awaitParse"
    /\ header.pixelDepth = U32(0) /\ header.faceCount = U32(1)

\* C16: a container accepted by the loader has pixelWidth >= 1 and
\* pixelHeight >= 1; for one that declares a zero width or height no texture is
\* created and no level is uploaded.
C16_AcceptedHasPositiveSize ==
    /\ AcceptedByLoader =>
          header.pixelWidth # U32(0) /\ header.pixelHeight # U32(0)
    /\ (header # Null /\ (header.pixelWidth = U32(0) \/ header.pixelHeight = U32(0))) =>
          srcTex = Null /\ uploads = <<>>

\* The load ended with a header, index, unsupported-scheme or unsupported-format
\* error: the identifier, the header size, a read past the end while the header,
\* index, level index, DFD or KVD was parsed, the scheme, or the format lookup.
EagerError ==
    /\ lpc = "threw"
    /\ \/ lerror \in {"Invalid KTX2 identifier", "KTX2 too small to contain header."}
       \/ lerror = "RangeError" /\ header = Null
       \/ lerror \in UnsupportedSchemeErrors
       \/ lerror = "Unsupported vkFormat"

\* C18: a load that ends with a header, index, unsupported-scheme or
\* unsupported-format error made no external decompress or transcode call before
\* the error.
C18_EagerErrorsBeforeLevels ==
    EagerError =>
        /\ DecompressCalls = {}
        /\ TranscodeCalls = {}
        /\ WasmTranscodes = {}

\* The levelCount the buffer declares: the little-endian uint32 at byte 40
\* (the inputs keep it below 2^16).
DeclaredLevelCount == arrayBuffer[41] + 256 * arrayBuffer[42]

\* A buffer of at least 80 bytes with a valid identifier whose level index,
\* max(1, levelCount) entries of 24 bytes from byte 80, reaches past its end.
IndexPastEnd ==
    /\ Len(arrayBuffer) >= 80
    /\ SubSeq(arrayBuffer, 1, 12) = KTX2_IDENTIFIER
    /\ arrayBuffer[43] = 0 /\ arrayBuffer[44] = 0
    /\ 80 + 24 * Max(1, DeclaredLevelCount) > Len(arrayBuffer)

\* C20: of a buffer of at least 80 bytes with a valid identifier whose level
\* index reaches past the end, the parse throws the out-of-range error of the
\* index read and yields no header and no level; and no parse holds a level
\* entry read from bytes outside the buffer.
C20_TruncatedIndexFails ==
    /\ (IndexPastEnd /\ pc # "start") =>
          /\ pc = "threw" /\ error = "RangeError"
          /\ header = Null /\ levels = <<>>
    /\ 80 + 24 * Len(levels) <= Max(80, Len(arrayBuffer))

\* A three-level file cut at 131 bytes, inside its second index entry, was
\* rejected.
C20_Witness ==
    /\ IndexPastEnd
    /\ Len(arrayBuffer) = 131 /\ DeclaredLevelCount = 3
    /\ pc = "threw" /\ error = "RangeError"
    /\ levels = <<>>

(***************************************************************************)
(* The claim about the codecs' initialisers (SpecInit).                    *)
(***************************************************************************)
\* C17: over any parses, sequential or interleaved at their awaits, each external
\* codec is initialised at most once: at most one script element appended, one
\* module factory invoked, per codec.
C17_EachCodecInitialisedOnce ==
    \A k \in Codecs : initCount[k] <= 1

\* C29: for width >= 1 and height >= 1, padBlockRowsBC with 1x1 blocks returns
\* what padRows returns: the same bytesPerRow, the source itself when padRows
\* returns the source and equal bytes otherwise, and rowsPerImage = height.
C29_UnitBlocksAgreeWithPadRows ==
    (/\ rowsRet # Null /\ bcRet # Null
     /\ padIn.width >= 1 /\ padIn.height >= 1
     /\ padIn.blockWidth = 1 /\ padIn.blockHeight = 1) =>
        /\ bcRet.bytesPerRow = rowsRet.bytesPerRow
        /\ bcRet.rowsPerImage = padIn.height
        /\ (rowsRet.data = SrcRef) <=> (bcRet.data = SrcRef)
        /\ heap[bcRet.data] = heap[rowsRet.data]

\* Both planners have padded a 33x2 source of 8-byte texels into buffers of their
\* own, of equal contents.
C29_Witness ==
    /\ padIn.width = 33 /\ padIn.height = 2 /\ padIn.bytesPer = 8
    /\ padIn.blockWidth = 1 /\ padIn.blockHeight = 1
    /\ rowsRet # Null /\ bcRet # Null
    /\ rowsRet.data # SrcRef /\ bcRet.data # SrcRef /\ rowsRet.data # bcRet.data
    /\ rowsRet.bytesPerRow = 512
    /\ heap[bcRet.data] = heap[rowsRet.data]
    /\ bcRet.rowsPerImage = 2

(***************************************************************************)
(* Claims about parseDFD and parseKVD (SpecParse).                         *)
(***************************************************************************)
\* The little-endian uint32 at byte offset off of the buffer, for values below
\* 2^16 (the inputs declare no larger offsets or lengths).
Declared16(off) == arrayBuffer[off + 1] + 256 * arrayBuffer[off + 2]

\* The parse got to the DFD: identifier, header and level index fit the buffer.
ReachesDFD ==
    /\ pc # "start"
    /\ Len(arrayBuffer) >= 80
    /\ SubSeq(arrayBuffer, 1, 12) = KTX2_IDENTIFIER
    /\ arrayBuffer[43] = 0 /\ arrayBuffer[44] = 0
    /\ 80 + 24 * Max(1, DeclaredLevelCount) <= Len(arrayBuffer)

\* The declared DFD region has a length above 0 and lies inside the file.
DfdRegionInside ==
    /\ \A k \in 51..52 : arrayBuffer[k] = 0
    /\ \A k \in 55..56 : arrayBuffer[k] = 0
    /\ Declared16(52) > 0
    /\ Declared16(48) + Declared16(52) <= Len(arrayBuffer)

\* C21: when the declared DFD region lies inside the file and its length is above
\* 0, parseDFD returns a descriptor and parseKTX2 does not fail at the DFD.
C21_DfdNeverFails ==
    (ReachesDFD /\ DfdRegionInside) =>
        /\ parseDFD(arrayBuffer, Declared16(48), Declared16(52)).error = "none"
        /\ Declared16(60) = 0 => ~(pc = "threw" /\ error = "RangeError" /\ header = Null)

\* What parseKVD does on the declared key/value region of the buffer.
KvdRun == parseKVD(arrayBuffer, Declared16(56), Declared16(60))

\* The parse got to the KVD and the region has a length above 0.
ReachesKVD ==
    /\ ReachesDFD
    /\ \A k \in {51, 52, 55, 56, 59, 60, 63, 64} : arrayBuffer[k] = 0
    /\ Declared16(52) >= 28 /\ Declared16(48) + Declared16(52) <= Len(arrayBuffer)
    /\ Declared16(60) > 0

\* The length field of the record that begins at cursor at.
RecordLength(at) == Nat32(getUint32(arrayBuffer, at))

\* C22: every pass of parseKVD begins a multiple of 4 bytes from the start of the
\* region; a pass over a record of length L > 0 moves the cursor by
\* 4 + L + ((4 - L % 4) % 4); the passes are finitely many; and a record of
\* length 0 ends the loop without error, the entries read so far being returned.
C22_KvdCursorAligned ==
    ReachesKVD =>
        LET r == KvdRun
            n == Len(r.cursors)
        IN  /\ \A j \in 1..n : (r.cursors[j] - Declared16(56)) % 4 = 0
            /\ \A j \in 1..(n - 1) :
                  LET L == RecordLength(r.cursors[j])
                  IN  /\ L > 0
                      /\ r.cursors[j + 1] = r.cursors[j] + 4 + L + ((4 - (L % 4)) % 4)
            /\ n <= Len(arrayBuffer) \div 8 + 1
            /\ (n > 0 /\ r.cursors[n] + 4 <= Len(arrayBuffer) /\ RecordLength(r.cursors[n]) = 0) =>
                  /\ r.error = "none"
                  /\ pc # "threw"
                  /\ pc = "returned" => (kvd = r.kv /\ Len(r.kv) <= n - 1)

\* A block of a 5-byte record, a 0-length record and a further record was read:
\* two passes, 12 bytes apart, and the one entry before the 0 returned.
C22_Witness ==
    /\ ReachesKVD
    /\ built.kvd = KvRecord5 \o KvRecord0 \o KvRecord4
    /\ pc = "returned"
    /\ Len(KvdRun.cursors) = 2
    /\ KvdRun.cursors[2] = KvdRun.cursors[1] + 12
    /\ Len(kvd) = 1 /\ kvd[1].key = <<97, 98>> /\ kvd[1].value = <<99, 100>>

(***************************************************************************)
(* The DFD colour model and the BasisLZ path (SpecLoad).                   *)
(***************************************************************************)
\* The file that differs from the one being loaded in the DFD colour-model byte
\* only.
TwinFile(m) == FileOf([built EXCEPT !.colorModel = m])

\* Two results of the head of parseKTX2 that agree in everything the BasisLZ path
\* and the loader go on to read (the error, or header, index, levels, kvd and the
\* dispatch) and whose DFDs agree in every field but colorModel.
SameButColourModel(r, t) ==
    /\ r.error = t.error
    /\ r.error = "none" =>
          /\ r.header = t.header /\ r.index = t.index /\ r.levels = t.levels
          /\ r.next = t.next
          /\ [r.dfd EXCEPT !.colorModel = 0] = [t.dfd EXCEPT !.colorModel = 0]

\* The label the viewer shows for a BasisLZ texture: if (dfd && dfd.length > 0)
\* it is chosen by dfd[0].colorModel.  What parseDFD returns is one object with no
\* length, for which the test is false and the label 'Basis Universal'.
basisFormatName(d) ==
    IF d = Null \/ "length" \notin DOMAIN d THEN "Basis Universal"
    ELSE IF ~(d.length > 0) THEN "Basis Universal"
    ELSE IF d[0].colorModel = 163 THEN "ETC1S"
    ELSE IF d[0].colorModel = 166 \/ d[0].colorModel = 152 THEN "UASTC"
    ELSE "Basis Universal"

BasisLZWhole ==
    /\ pc \notin {"idle", "start"}
    /\ BuilderWroteWhole(built)
    /\ built.header.supercompressionScheme = U32(SUPERCOMPRESSION_BASIS_LZ)

C24_SelectedMipWithinTexture ==
    probe # Null /\ ~probe.overlapped /\ probe.singleMip # Null
                 /\ ~probe.singleMip.loading
                 /\ (\A i \in 1..Len(fileLoads) : fileLoads[i].at # "failed")
        => probe.singleMip.baseMipLevel < probe.singleMip.ofLevels

(***************************************************************************)
(* C26: a file load that fails leaves the viewer as it was: the previous   *)
(* srcTex is not destroyed, and srcTex, srcView, texBindGroup, the mip     *)
(* count and the slider range are those of before the load.  Stated for    *)
(* the first load of a session, whose 'before' is the state after set-up.  *)
(***************************************************************************)
ViewerAsSetUp ==
    /\ ~textures[1].destroyed
    /\ viewer.srcTex = 1
    /\ viewer.srcView = CreateView(textures, 1)
    /\ viewer.texBindGroup = CreateView(textures, 1)
    /\ viewer.mipCount = 1
    /\ viewer.sliderMax = 0

C26_FailedLoadLeavesViewer ==
    Len(fileLoads) = 1 /\ fileLoads[1].at = "failed" => ViewerAsSetUp

(***************************************************************************)
(* C27: when a file was selected while an earlier load was suspended, then *)
(* once every load has completed, the texture shown (srcTex, srcView, bind *)
(* group), the slider range and the status text belong to the file         *)
(* selected last, and no upload or view was made on a destroyed texture.   *)
(***************************************************************************)
ShownBelongsTo(n) ==
    /\ textures[viewer.srcTex].file = n
    /\ viewer.srcView.tex = viewer.srcTex
    /\ viewer.texBindGroup.tex = viewer.srcTex
    /\ viewer.sliderMax = Max(0, fileLoads[n].levels - 1)
    /\ viewer.stat.file = n

C27_LastSelectionWins ==
    /\ probe # Null
    /\ probe.overlapped
    /\ \A i \in 1..Len(fileLoads) : fileLoads[i].at = "done"
    => ShownBelongsTo(Len(fileLoads)) /\ ~probe.usedDestroyed

(***************************************************************************)
(* C25: in a BasisLZ load every resource acquired is released exactly once *)
(* on every exit path: the file object opened in parseKTX2 is closed and   *)
(* deleted once when parseKTX2 has returned or thrown; in the loader the   *)
(* transcoder is deleted once and every pointer _malloc gave is freed once *)
(* when the load has ended or thrown.                                      *)
(***************************************************************************)
CallsOf(log, op) == {k \in DOMAIN log : log[k].op = op}

BasisFileOpened ==
    \E k \in DOMAIN calls :
        \/ calls[k].op = "new BasisFile"
        \/ calls[k].op = "new KTX2File" /\ calls[k].ret

PointersOf(log, level) ==
    {k \in CallsOf(log, "_malloc") : log[k].level = level /\ log[k].ret = "ptr"}

FreesOf(log, level) == {k \in CallsOf(log, "_free") : log[k].level = level}

C25_ReleasedExactlyOnce ==
    /\ pc \in {"returned", "threw"} /\ BasisFileOpened
          => /\ Cardinality(CallsOf(calls, "close")) = 1
             /\ Cardinality(CallsOf(calls, "delete")) = 1
    /\ lpc \in {"done", "threw"}
          => /\ \A level \in (0 - 1)..MaxLevels :
                   Cardinality(PointersOf(wasm.log, level))
                       = Cardinality(FreesOf(wasm.log, level))
             /\ PointersOf(wasm.log, 0 - 1) # {}
                   => Cardinality(CallsOf(wasm.log, "delete")) = 1

(***************************************************************************)
(* C30: once the promise of loadBasisModule is settled, on whichever exit  *)
(* path, window.module and window.exports have the values they had before  *)
(* the call.                                                               *)
(***************************************************************************)
C30_WindowGlobalsRestored ==
    globals # Null /\ globals.basisModulePromise \in {"fulfilled", "rejected"}
        => globals.window = WindowBefore

(***************************************************************************)
(* C28: transcodeFullKTX2 calls texture.transcodeBasis exactly when the    *)
(* texture needs transcoding (needsTranscoding() reports true, or the      *)
(* method is absent and vkFormat is 0); and on every exit path after the   *)
(* texture was constructed texture.delete() is called, once, after every   *)
(* mip that is returned has been copied.                                   *)
(***************************************************************************)
NeedsTranscoding(texture) ==
    IF texture.needsTranscoding = "function" THEN texture.reports
    ELSE texture.vkFormat = 0

Constructed == CallsOf(fullRun.log, "new ktxTexture2") # {}

DeletedLast ==
    /\ CallsOf(fullRun.log, "delete") = {Len(fullRun.log)}
    /\ fullRun.at = "returned"
          => Cardinality(CallsOf(fullRun.log, "copy")) = fullRun.mips

C28_TranscodeOnlyWhenNeeded ==
    fullRun # Null /\ Constructed
        => /\ CallsOf(fullRun.log, "transcodeBasis") # {}
                 <=> NeedsTranscoding(fullRun.texture)
           /\ fullRun.at \in {"returned", "threw"} => DeletedLast

====
